---- MODULE Spec2Model ----
(***************************************************************************)
(* Fit-scoring and ranking engine of the ontology-based Big Five job       *)
(* recommendation system: trait aggregation, skill matching, category fit, *)
(* experience scoring and the weighted overall score, as coded in          *)
(* app_interface.py, calculate_bigfive.py and workflow_simple.py.          *)
(*                                                                         *)
(* Numbers.  Trait values and score components carry two decimals in the   *)
(* program; here they are integers counting hundredths (3.17 is 317).      *)
(* A value that the program holds unrounded is an exact fraction           *)
(* <<numerator, denominator>> of hundredths.  Python's round() works on    *)
(* the binary float: a value that is a decimal tie (x.xx5) is not          *)
(* representable and may sit on either side of the tie, so the direction   *)
(* of a tie is not fixed by the decimal value.  The variable fp holds the  *)
(* direction ties take in a behaviour; it never changes, which keeps a     *)
(* repeated call deterministic.                                            *)
(*                                                                         *)
(* Strings are sequences of one-character strings, so that lower() and     *)
(* replace() are computed character by character.  None is the empty       *)
(* tuple and a present optional value x is <<x>>.                          *)
(***************************************************************************)
EXTENDS Integers, Sequences, FiniteSets, TLC

VARIABLES
    answers,        \* dict question number -> Likert score (calculate_big_five's input)
    q_num,          \* the question the questionnaire is at (1..30, 31 when through)
    big_five,       \* result of calculate_big_five (app_interface.py), None before the call
    cli_scores,     \* result of calculate_trait_scores (calculate_bigfive.py)
    wf_scores,      \* trait_scores of step1_calculate_scores (workflow_simple.py)
    applicant,      \* the applicant dict passed to calculate_overall_fit_score
    onto,           \* job class name -> required skills, as the ontology declares them
    overall,        \* return value of calculate_overall_fit_score, None before the call
    skill_match,    \* return value of calculate_skill_match, None before the call
    fp,             \* direction of decimal ties in round(): [component, total]
    previous,       \* what the call before the last one on this applicant gave, None before it
    entries,        \* the collection handed to a ranking, in its input order
    ranked,         \* outcome of the last ranking of entries, None before one
    applicant_data, \* the applicant add_applicant.py has read (JSON file or prompts)
    g,              \* the rdflib graph of add_applicant.py, a set of triples
    success,        \* return value of add_applicant_to_graph, None before the call
    jobs_clean,     \* the graph serialised to jobs_clean.ttl, None while not written
    persons,        \* the Person instances of jobs_with_scores.owl, by name
    runs,           \* completed runs of run_complete_workflow
    calls           \* the concurrent invocations of the scoring functions

\* The variables of the rankings
ranking == <<entries, ranked>>

\* The variables of the intake script, the stored persons and the
\* concurrent invocations
surroundings == <<applicant_data, g, success, jobs_clean, persons, runs, calls>>

vars == <<answers, q_num, big_five, cli_scores, wf_scores,
          applicant, onto, overall, skill_match, fp, previous, entries, ranked,
          applicant_data, g, success, jobs_clean, persons, runs, calls>>

-----------------------------------------------------------------------------
(* Bounds of the model *)

\* questions of one questionnaire that are left unanswered or answered
\* otherwise than the form's default
MaxEdits == 1
\* trait values are drawn from a grid of TraitLevels + 1 values over [1.00, 5.00]
TraitLevels == 3
\* a job requires at most this many hard skills
MaxRequired == 5
\* an applicant lists at most this many skills outside the job's vocabulary
MaxExtra == 24
\* years of experience range over 0..MaxYears
\* Entries of a ranking with every choice of name and profile
MaxEntries == 3
\* Entries of the longest ranking
MaxRanked == 30
MaxYears == 12
\* invocations of the scoring functions under way at once
MaxCalls == 3
\* stored persons of one ontology file, and runs of the workflow on it
MaxPersons == 2
MaxRuns == 2

-----------------------------------------------------------------------------
(* Python values *)

None == <<>>
Some(x) == <<x>>

\* Python truthiness of an optional string or number held as None / Some(x)
TruthyStr(o) == o # None /\ Len(o[1]) > 0
TruthyInt(o) == o # None /\ o[1] # 0

RECURSIVE SumSeq(_)
SumSeq(s) == IF s = <<>> THEN 0 ELSE Head(s) + SumSeq(Tail(s))

\* sum(d.values()) of a dict held as a function
RECURSIVE SumValues(_, _)
SumValues(d, keys) ==
    IF keys = {} THEN 0
    ELSE LET k == CHOOSE x \in keys : TRUE
         IN d[k] + SumValues(d, keys \ {k})

Min(a, b) == IF a <= b THEN a ELSE b

\* list(range(a, b))
Range(a, b) == [i \in 1..(b - a) |-> a + i - 1]

\* x in s, for a list s
InList(x, s) == \E i \in 1..Len(s) : s[i] = x

-----------------------------------------------------------------------------
(* Fractions of hundredths and round(x, 2) *)

Frac(n, d) == <<n, d>>
FAdd(a, b) == <<a[1] * b[2] + b[1] * a[2], a[2] * b[2]>>
FInt(n) == <<n, 1>>

\* round(x, 2) of the value q hundredths: the nearest integer number of
\* hundredths; an exact decimal tie goes up when up holds and down otherwise.
Round2(q, up) ==
    LET n == q[1]
        d == q[2]
        floor == n \div d
        rem2 == 2 * (n % d)
    IN IF rem2 > d THEN floor + 1
       ELSE IF rem2 < d THEN floor
       ELSE IF up THEN floor + 1 ELSE floor

IsTie(q) == 2 * (q[1] % q[2]) = q[2]

-----------------------------------------------------------------------------
(* Trait aggregation *)

Traits == {"Openness", "Conscientiousness", "Extraversion", "Agreeableness", "Neuroticism"}

\* app_interface.py
TRAIT_MAPPING ==
    [t \in Traits |->
        CASE t = "Openness" -> Range(1, 7)
          [] t = "Conscientiousness" -> Range(7, 13)
          [] t = "Extraversion" -> Range(13, 19)
          [] t = "Agreeableness" -> Range(19, 25)
          [] t = "Neuroticism" -> Range(25, 31)]

\* calculate_bigfive.py
CLI_TRAIT_MAPPING ==
    [t \in Traits |->
        CASE t = "Agreeableness" -> Range(1, 7)
          [] t = "Conscientiousness" -> Range(7, 13)
          [] t = "Extraversion" -> Range(13, 19)
          [] t = "Neuroticism" -> Range(19, 25)
          [] t = "Openness" -> Range(25, 31)]

\* workflow_simple.py, local to step1_calculate_scores
trait_mapping ==
    [t \in Traits |->
        CASE t = "Agreeableness" -> Range(1, 7)
          [] t = "Conscientiousness" -> Range(7, 13)
          [] t = "Extraversion" -> Range(13, 19)
          [] t = "Neuroticism" -> Range(19, 25)
          [] t = "Openness" -> Range(25, 31)]

\* [answers.get(q) for q in question_nums if q in answers]
AnsweredScores(ans, question_nums) ==
    LET present == SelectSeq(question_nums, LAMBDA q : q \in DOMAIN ans)
    IN [i \in 1..Len(present) |-> ans[present[i]]]

\* A mean cut off after two decimals instead of rounded
MeanTruncated(scores, up) == (100 * SumSeq(scores)) \div Len(scores)

\* round(sum(scores) / len(scores), 2), in hundredths
MeanRounded(scores, up) == Round2(Frac(100 * SumSeq(scores), Len(scores)), up)

AggregateTraits(ans, mapping, up) ==
    [t \in {x \in DOMAIN mapping : AnsweredScores(ans, mapping[x]) # <<>>} |->
        MeanRounded(AnsweredScores(ans, mapping[t]), up)]

\* The trait scores as mean deviations from the neutral answer 3
CentredBigFive(ans, up) ==
    AggregateTraits([q \in DOMAIN ans |-> ans[q] - 3], TRAIT_MAPPING, up)

calculate_big_five(ans, up) == AggregateTraits(ans, TRAIT_MAPPING, up)

calculate_trait_scores(ans, up) == AggregateTraits(ans, CLI_TRAIT_MAPPING, up)

\* step1_calculate_scores aggregates only a person that has answers
step1_trait_scores(ans, up) ==
    IF DOMAIN ans = {} THEN None ELSE Some(AggregateTraits(ans, trait_mapping, up))

-----------------------------------------------------------------------------
(* Strings *)

UpperAlpha == <<"A", "B", "C", "D", "E", "F", "G", "H", "I", "J", "K", "L", "M",
                "N", "O", "P", "Q", "R", "S", "T", "U", "V", "W", "X", "Y", "Z">>
LowerAlpha == <<"a", "b", "c", "d", "e", "f", "g", "h", "i", "j", "k", "l", "m",
                "n", "o", "p", "q", "r", "s", "t", "u", "v", "w", "x", "y", "z">>

\* The lower-case letter of every upper-case letter
UpperToLower ==
    [c \in {UpperAlpha[i] : i \in 1..Len(UpperAlpha)} |->
        LowerAlpha[CHOOSE i \in 1..Len(UpperAlpha) : UpperAlpha[i] = c]]

\* one character of str.lower()
LowerChar(c) == IF c \in DOMAIN UpperToLower THEN UpperToLower[c] ELSE c

\* s.lower()
Lower(s) == [i \in 1..Len(s) |-> LowerChar(s[i])]

\* s.replace(c, "") for a single character c
RemoveChar(s, c) == SelectSeq(s, LAMBDA x : x # c)

\* [s.lower() for s in skills]
LowerAll(skills) == [i \in 1..Len(skills) |-> Lower(skills[i])]

-----------------------------------------------------------------------------
(* Dicts: functions over their keys *)

\* d.get(k, default)
Get(d, k, default) == IF k \in DOMAIN d THEN d[k] ELSE default

\* d[k] = v
DictSet(d, k, v) == [x \in DOMAIN d \cup {k} |-> IF x = k THEN v ELSE d[x]]

-----------------------------------------------------------------------------
(* Job requirements and skill matching *)

NoSkills == [hard_skills |-> <<>>, soft_skills |-> <<>>]

\* The requiresSkill restrictions of the class named job_name; a class the
\* ontology does not have (or a failed load) gives two empty lists.
get_job_required_skills(o, job_name) ==
    IF job_name \in DOMAIN o THEN o[job_name] ELSE NoSkills

\* The matched skills compared with the case kept
MatchedSkillsCaseSensitive(all_applicant, all_required) ==
    SelectSeq(all_applicant, LAMBDA s : InList(s, all_required))

\* [s for s in all_applicant if s.lower() in required_lower]
MatchedSkills(all_applicant, all_required) ==
    SelectSeq(all_applicant, LAMBDA s : InList(Lower(s), LowerAll(all_required)))

\* [s for s in all_required if s.lower() not in applicant_lower]
MissingSkills(all_applicant, all_required) ==
    SelectSeq(all_required, LAMBDA s : ~InList(Lower(s), LowerAll(all_applicant)))

\* [s for s in all_applicant if s.lower() not in required_lower]
AdditionalSkills(all_applicant, all_required) ==
    SelectSeq(all_applicant, LAMBDA s : ~InList(Lower(s), LowerAll(all_required)))

\* round(x, 1) of the value q tenths
Round1(q, up) == Round2(q, up)

\* Returns [pct, matched, missing]; pct counts tenths of a percent point.
calculate_skill_match(o, applicant_skills, applicant_soft_skills, job_name, up) ==
    IF ~TruthyStr(job_name)
    THEN [pct |-> 0, matched |-> <<>>, missing |-> <<>>]
    ELSE LET required == get_job_required_skills(o, job_name[1])
             all_required == required.hard_skills \o required.soft_skills
             all_applicant == applicant_skills \o applicant_soft_skills
         IN IF all_required = <<>>
            THEN [pct |-> 1000, matched |-> all_applicant, missing |-> <<>>]
            ELSE LET matched == MatchedSkills(all_applicant, all_required)
                     missing == MissingSkills(all_applicant, all_required)
                 IN [pct |-> Round1(Frac(Len(matched) * 1000, Len(all_required)), up),
                     matched |-> matched,
                     missing |-> missing]

-----------------------------------------------------------------------------
(* Role families *)

analytical_roles ==
    {<<"d", "a", "t", "a", "a", "n", "a", "l", "y", "s", "t">>,
     <<"d", "a", "t", "a", "s", "c", "i", "e", "n", "t", "i", "s", "t">>,
     <<"p", "r", "o", "d", "u", "c", "t", "m", "a", "n", "a", "g", "e", "r">>,
     <<"u", "x", "r", "e", "s", "e", "a", "r", "c", "h", "e", "r">>,
     <<"s", "e", "c", "u", "r", "i", "t", "y", "a", "n", "a", "l", "y", "s", "t">>,
     <<"f", "i", "n", "a", "n", "c", "e", "a", "n", "a", "l", "y", "s", "t">>,
     <<"f", "i", "n", "a", "n", "c", "i", "a", "l", "a", "n", "a", "l", "y", "s", "t">>}

technical_roles ==
    {<<"s", "o", "f", "t", "w", "a", "r", "e", "e", "n", "g", "i", "n", "e", "e", "r">>,
     <<"d", "e", "v", "o", "p", "s", "e", "n", "g", "i", "n", "e", "e", "r">>,
     <<"q", "a", "e", "n", "g", "i", "n", "e", "e", "r">>,
     <<"u", "i", "u", "x", "d", "e", "s", "i", "g", "n", "e", "r">>,
     <<"t", "a", "x", "o", "f", "f", "i", "c", "e", "r">>,
     <<"d", "a", "t", "a", "e", "n", "g", "i", "n", "e", "e", "r">>,
     <<"b", "a", "c", "k", "e", "n", "d", "d", "e", "v", "e", "l", "o", "p", "e", "r">>,
     <<"f", "r", "o", "n", "t", "e", "n", "d", "d", "e", "v", "e", "l", "o", "p", "e", "r">>}

support_roles ==
    {<<"c", "u", "s", "t", "o", "m", "e", "r", "s", "u", "c", "c", "e", "s", "s">>,
     <<"c", "u", "s", "t", "o", "m", "e", "r", "s", "u", "p", "p", "o", "r", "t">>,
     <<"h", "r", "m", "a", "n", "a", "g", "e", "r">>,
     <<"p", "e", "o", "p", "l", "e", "a", "n", "d", "c", "u", "l", "t", "u", "r", "e">>,
     <<"c", "u", "s", "t", "o", "m", "e", "r", "s", "u", "p", "p", "o", "r", "t", "j", "o", "b">>}

writing_roles ==
    {<<"c", "o", "n", "t", "e", "n", "t", "w", "r", "i", "t", "e", "r">>,
     <<"c", "o", "p", "y", "w", "r", "i", "t", "e", "r">>,
     <<"u", "x", "w", "r", "i", "t", "e", "r">>,
     <<"c", "o", "n", "t", "e", "n", "t", "s", "t", "r", "a", "t", "e", "g", "i", "s", "t">>}

interpersonal_roles ==
    {<<"s", "a", "l", "e", "s", "m", "a", "n", "a", "g", "e", "r">>,
     <<"a", "c", "c", "o", "u", "n", "t", "m", "a", "n", "a", "g", "e", "r">>,
     <<"a", "c", "c", "o", "u", "n", "t", "m", "a", "n", "a", "g", "e", "r", "j", "o", "b">>,
     <<"c", "o", "m", "m", "u", "n", "i", "t", "y", "m", "a", "n", "a", "g", "e", "r">>}

\* JobOccupation.replace(" ", "").replace("_", "").lower() if JobOccupation else ""
NormalizedJob(JobOccupation) ==
    IF TruthyStr(JobOccupation)
    THEN Lower(RemoveChar(RemoveChar(JobOccupation[1], " "), "_"))
    ELSE <<>>

-----------------------------------------------------------------------------
(* The four components of calculate_overall_fit_score, unrounded *)

\* (x / 5.0) * w for a trait value of h hundredths, in hundredths
Weighted(h, w) == Frac(w * h, 5)

\* The personality score with the sum divided by the five traits there are
PersonalityScoreOverFive(scores) ==
    IF DOMAIN scores # {}
    THEN Frac(25 * SumValues(scores, DOMAIN scores), 5 * 5)
    ELSE FInt(0)

\* 1. Personality (25%): (avg_personality / 5.0) * 25, or nothing added
PersonalityScore(scores) ==
    IF DOMAIN scores # {}
    THEN Frac(25 * SumValues(scores, DOMAIN scores), 5 * Cardinality(DOMAIN scores))
    ELSE FInt(0)

\* The Analytical formula with the inverted-Neuroticism term scaled by 5 again
AnalyticalFitTimesFive(scores) ==
    FAdd(FAdd(Weighted(Get(scores, "Conscientiousness", 0), 8),
              Weighted(Get(scores, "Openness", 0), 8)),
         Weighted(5 * (500 - Get(scores, "Neuroticism", 500)), 4))

\* The Analytical formula with a missing Neuroticism read as 0, like the others
AnalyticalFitMissingAsZero(scores) ==
    FAdd(FAdd(Weighted(Get(scores, "Conscientiousness", 0), 8),
              Weighted(Get(scores, "Openness", 0), 8)),
         Weighted(500 - Get(scores, "Neuroticism", 0), 4))

AnalyticalFit(scores) ==
    FAdd(FAdd(Weighted(Get(scores, "Conscientiousness", 0), 8),
              Weighted(Get(scores, "Openness", 0), 8)),
         Weighted(500 - Get(scores, "Neuroticism", 500), 4))

\* The Technical formula with its two weights exchanged
TechnicalFitSwapped(scores) ==
    FAdd(Weighted(Get(scores, "Conscientiousness", 0), 8),
         Weighted(Get(scores, "Openness", 0), 12))

TechnicalFit(scores) ==
    FAdd(Weighted(Get(scores, "Conscientiousness", 0), 12),
         Weighted(Get(scores, "Openness", 0), 8))

SupportFit(scores) ==
    FAdd(Weighted(Get(scores, "Agreeableness", 0), 10),
         Weighted(Get(scores, "Extraversion", 0), 10))

WritingFit(scores) ==
    FAdd(Weighted(Get(scores, "Openness", 0), 15),
         Weighted(Get(scores, "Conscientiousness", 0), 5))

InterpersonalFit(scores) ==
    FAdd(Weighted(Get(scores, "Extraversion", 0), 12),
         Weighted(Get(scores, "Agreeableness", 0), 8))

\* (sum(scores.values()) / len(scores) / 5.0) * 20
OtherFit(scores) ==
    Frac(20 * SumValues(scores, DOMAIN scores), 5 * Cardinality(DOMAIN scores))

\* 2. Category fit (20%)
CategoryScore(scores, normalized_job) ==
    IF DOMAIN scores # {} /\ normalized_job # <<>>
    THEN IF normalized_job \in analytical_roles THEN AnalyticalFit(scores)
         ELSE IF normalized_job \in technical_roles THEN TechnicalFit(scores)
         ELSE IF normalized_job \in support_roles THEN SupportFit(scores)
         ELSE IF normalized_job \in writing_roles THEN WritingFit(scores)
         ELSE IF normalized_job \in interpersonal_roles THEN InterpersonalFit(scores)
         ELSE OtherFit(scores)
    ELSE FInt(0)

\* The skill score with the proficiency bonus paid only for a full match
SkillScoreFullMatchBonus(all_applicant, all_required) ==
    LET matched == SelectSeq(all_applicant,
                             LAMBDA s : InList(Lower(s), LowerAll(all_required)))
        additional_skills == SelectSeq(all_applicant,
                                 LAMBDA s : ~InList(Lower(s), LowerAll(all_required)))
        proficiency_bonus == IF Len(matched) >= Len(all_required) THEN 500 ELSE 0
    IN FAdd(Frac(Len(matched) * 20 * 100, Len(all_required)),
            FInt(Min(Len(additional_skills) * 50, 1000) + proficiency_bonus))

\* 3. Skill match (35%), the branch of a job with required skills:
\* matched_score + additional_score + proficiency_bonus
\* The skill score with the matched share taken of the applicant's skills
\* instead of the required ones
SkillScoreShareOfApplicant(all_applicant, all_required) ==
    LET matched == MatchedSkills(all_applicant, all_required)
        matched_score == IF all_applicant = <<>> THEN FInt(0)
                         ELSE Frac(Len(matched) * 20 * 100, Len(all_applicant))
        additional_skills == AdditionalSkills(all_applicant, all_required)
        additional_score == Min(Len(additional_skills) * 50, 1000)
        proficiency_bonus == IF 10 * Len(matched) >= 8 * Len(all_required) THEN 500 ELSE 0
    IN FAdd(matched_score, FInt(additional_score + proficiency_bonus))

SkillScore(all_applicant, all_required) ==
    LET matched == MatchedSkills(all_applicant, all_required)
        matched_score == Frac(Len(matched) * 20 * 100, Len(all_required))
        additional_skills == AdditionalSkills(all_applicant, all_required)
        additional_score == Min(Len(additional_skills) * 50, 1000)
        proficiency_bonus == IF 10 * Len(matched) >= 8 * Len(all_required) THEN 500 ELSE 0
    IN FAdd(matched_score, FInt(additional_score + proficiency_bonus))

\* The fallback without its cap
BasicSkillScoreUncapped(all_applicant) == Len(all_applicant) * 150

\* 3. Skill match, the branch of a job without required skills
BasicSkillScore(all_applicant) == Min(Len(all_applicant) * 150, 3500)

\* The experience score with the years not capped at 10 points
ExperienceScoreUncapped(years_exp, job_field, JobOccupation) ==
    years_exp * 100 +
        (IF years_exp >= 1 /\ TruthyStr(job_field) /\ TruthyStr(JobOccupation) THEN 1000
         ELSE IF years_exp >= 2 THEN 500
         ELSE 0)

\* The experience score with the full bonus paid without a job field
ExperienceScoreNoField(years_exp, job_field, JobOccupation) ==
    Min(years_exp * 100, 1000) +
        (IF years_exp >= 1 /\ TruthyStr(JobOccupation) THEN 1000
         ELSE IF years_exp >= 2 THEN 500
         ELSE 0)

\* 4. Experience (20%): years_score + relevant_bonus
\* The experience score with the two tests of the bonus in the other order
ExperienceScoreYearsFirst(years_exp, job_field, JobOccupation) ==
    LET years_score == Min(years_exp * 100, 1000)
        relevant_bonus ==
            IF years_exp >= 2 THEN 500
            ELSE IF years_exp >= 1 /\ TruthyStr(job_field) /\ TruthyStr(JobOccupation) THEN 1000
            ELSE 0
    IN years_score + relevant_bonus

ExperienceScore(years_exp, job_field, JobOccupation) ==
    LET years_score == Min(years_exp * 100, 1000)
        relevant_bonus ==
            IF years_exp >= 1 /\ TruthyStr(job_field) /\ TruthyStr(JobOccupation) THEN 1000
            ELSE IF years_exp >= 2 THEN 500
            ELSE 0
    IN years_score + relevant_bonus

\* applicant.get('years_experience') or 0
YearsExp(a) ==
    IF TruthyInt(Get(a, "years_experience", None)) THEN a["years_experience"][1] ELSE 0

AllRequired(o, a) ==
    LET required_skills == get_job_required_skills(o, a["JobOccupation"][1])
    IN required_skills.hard_skills \o required_skills.soft_skills

AllApplicant(a) == Get(a, "hard_skills", <<>>) \o Get(a, "soft_skills", <<>>)

\* The skill component with no job treated like a job that requires nothing
SkillComponentNoJobAsNoRequirement(o, a) ==
    IF TruthyStr(Get(a, "JobOccupation", None))
    THEN IF AllRequired(o, a) # <<>>
         THEN SkillScore(AllApplicant(a), AllRequired(o, a))
         ELSE FInt(BasicSkillScore(AllApplicant(a)))
    ELSE FInt(BasicSkillScore(AllApplicant(a)))

\* The skill component added to score, unrounded
SkillComponent(o, a) ==
    IF TruthyStr(Get(a, "JobOccupation", None))
    THEN IF AllRequired(o, a) # <<>>
         THEN SkillScore(AllApplicant(a), AllRequired(o, a))
         ELSE FInt(BasicSkillScore(AllApplicant(a)))
    ELSE FInt(0)

\* The dict stored as applicant['score_breakdown']
Breakdown(o, a, f) ==
    LET JobOccupation == Get(a, "JobOccupation", None)
        scores == a["scores"]
        b1 == [k \in {"personality"} |->
                  IF DOMAIN scores # {} THEN Round2(PersonalityScore(scores), f.component) ELSE 0]
        b2 == DictSet(b1, "category_fit",
                      Round2(CategoryScore(scores, NormalizedJob(JobOccupation)), f.component))
        b3 == IF TruthyStr(JobOccupation) /\ AllRequired(o, a) # <<>>
              THEN DictSet(DictSet(DictSet(b2,
                       "skill_match", Round2(SkillComponent(o, a), f.component)),
                       "matched_skills", Len(MatchedSkills(AllApplicant(a), AllRequired(o, a)))),
                       "required_skills", Len(AllRequired(o, a)))
              ELSE DictSet(b2, "skill_match", Round2(SkillComponent(o, a), f.component))
        b4 == DictSet(b3, "experience",
                      ExperienceScore(YearsExp(a), Get(a, "job_field", None), JobOccupation))
    IN DictSet(b4, "years_experience", YearsExp(a))

\* The sum without the experience score added
RawScoreNoExperience(o, a) ==
    FAdd(FAdd(PersonalityScore(a["scores"]),
              CategoryScore(a["scores"], NormalizedJob(Get(a, "JobOccupation", None)))),
         SkillComponent(o, a))

\* The sum started from the personality value of an earlier score_breakdown
\* of the record instead of 0
RawScoreCarriedOver(o, a) ==
    FAdd(FAdd(FAdd(FInt(Get(a, "score_breakdown", [personality |-> 0])["personality"]),
                   PersonalityScore(a["scores"])),
              CategoryScore(a["scores"], NormalizedJob(Get(a, "JobOccupation", None)))),
         FAdd(SkillComponent(o, a),
              FInt(ExperienceScore(YearsExp(a), Get(a, "job_field", None),
                                   Get(a, "JobOccupation", None)))))

\* score, the unrounded sum the function accumulates
RawScore(o, a) ==
    FAdd(FAdd(PersonalityScore(a["scores"]),
              CategoryScore(a["scores"], NormalizedJob(Get(a, "JobOccupation", None)))),
         FAdd(SkillComponent(o, a),
              FInt(ExperienceScore(YearsExp(a), Get(a, "job_field", None),
                                   Get(a, "JobOccupation", None)))))

\* The return value: round(score, 2)
OverallFitScore(o, a, f) == Round2(RawScore(o, a), f.total)

-----------------------------------------------------------------------------
(* Inputs *)

FpChoices == [component : BOOLEAN, total : BOOLEAN]

\* Where the inputs of a specification give no decimal tie to any round(),
\* the direction of ties is immaterial and fp is fixed (see TieFree).
NoTies == [component |-> FALSE, total |-> FALSE]

\* The radio buttons of the assessment form start at index 2, the answer 3
DefaultAnswer == 3
NumQuestions == 30
LikertScores == 1..5

\* A dict of trait scores from a choice per trait, 0 meaning the trait is absent
ToScores(f) == [t \in {x \in DOMAIN f : f[x] # 0} |-> f[t]]

TraitGrid == {100 + (400 * k) \div TraitLevels : k \in 0..TraitLevels}

ScoreDicts == {ToScores(f) : f \in [Traits -> {0} \cup TraitGrid]}

\* Job names: titles of JOB_CATEGORIES, ontology class names, and one name
\* no role family knows
DataAnalystTitle == <<"D", "a", "t", "a", " ", "A", "n", "a", "l", "y", "s", "t">>
DataAnalystClass == <<"D", "a", "t", "a", "_", "A", "n", "a", "l", "y", "s", "t">>
SoftwareEngineerTitle == <<"S", "o", "f", "t", "w", "a", "r", "e", " ", "E", "n", "g", "i", "n", "e", "e", "r">>
UiUxDesignerTitle == <<"U", "I", "/", "U", "X", " ", "D", "e", "s", "i", "g", "n", "e", "r">>
CustomerSupportTitle == <<"C", "u", "s", "t", "o", "m", "e", "r", " ", "S", "u", "p", "p", "o", "r", "t">>
CustomerSupportClass == <<"C", "u", "s", "t", "o", "m", "e", "r", "S", "u", "p", "p", "o", "r", "t", "J", "o", "b">>
CopywriterTitle == <<"C", "o", "p", "y", "w", "r", "i", "t", "e", "r">>
SalesManagerTitle == <<"S", "a", "l", "e", "s", " ", "M", "a", "n", "a", "g", "e", "r">>
AccountManagerClass == <<"A", "c", "c", "o", "u", "n", "t", "M", "a", "n", "a", "g", "e", "r", "J", "o", "b">>
BaristaTitle == <<"B", "a", "r", "i", "s", "t", "a">>

JobNames ==
    {DataAnalystTitle, DataAnalystClass, SoftwareEngineerTitle, UiUxDesignerTitle,
     CustomerSupportTitle, CustomerSupportClass, CopywriterTitle, SalesManagerTitle,
     AccountManagerClass, BaristaTitle}

\* JobOccupation as the callers pass it: None, "" or a name
JobChoices ==
    {None, Some(<<>>)} \cup
    {Some(j) : j \in {DataAnalystClass, SoftwareEngineerTitle, UiUxDesignerTitle,
                      CustomerSupportClass, CopywriterTitle, AccountManagerClass,
                      BaristaTitle}}

\* The 'jobs' of each entry of JOB_CATEGORIES, the categories the interface
\* publishes
JOB_CATEGORIES ==
   [ HighFitForAnalyticalRoles |->
        {<<"D", "a", "t", "a", " ", "A", "n", "a", "l", "y", "s", "t">>,
         <<"D", "a", "t", "a", " ", "S", "c", "i", "e", "n", "t", "i", "s", "t">>,
         <<"P", "r", "o", "d", "u", "c", "t", " ", "M", "a", "n", "a", "g", "e", "r">>,
         <<"U", "X", " ", "R", "e", "s", "e", "a", "r", "c", "h", "e", "r">>,
         <<"S", "e", "c", "u", "r", "i", "t", "y", " ", "A", "n", "a", "l", "y", "s", "t">>,
         <<"F", "i", "n", "a", "n", "c", "e", " ", "A", "n", "a", "l", "y", "s", "t">>},
    HighFitForTechnicalRoles |->
        {<<"S", "o", "f", "t", "w", "a", "r", "e", " ", "E", "n", "g", "i", "n", "e", "e", "r">>,
         <<"D", "e", "v", "O", "p", "s", " ", "E", "n", "g", "i", "n", "e", "e", "r">>,
         <<"Q", "A", " ", "E", "n", "g", "i", "n", "e", "e", "r">>,
         <<"U", "I", "/", "U", "X", " ", "D", "e", "s", "i", "g", "n", "e", "r">>,
         <<"T", "a", "x", " ", "O", "f", "f", "i", "c", "e", "r">>},
    HighFitForSupportRoles |->
        {<<"C", "u", "s", "t", "o", "m", "e", "r", " ", "S", "u", "c", "c", "e", "s", "s">>,
         <<"C", "u", "s", "t", "o", "m", "e", "r", " ", "S", "u", "p", "p", "o", "r", "t">>,
         <<"H", "R", " ", "M", "a", "n", "a", "g", "e", "r">>,
         <<"P", "e", "o", "p", "l", "e", " ", "&", " ", "C", "u", "l", "t", "u", "r", "e">>},
    HighFitForWritingRoles |->
        {<<"C", "o", "n", "t", "e", "n", "t", " ", "W", "r", "i", "t", "e", "r">>,
         <<"C", "o", "p", "y", "w", "r", "i", "t", "e", "r">>,
         <<"U", "X", " ", "W", "r", "i", "t", "e", "r">>,
         <<"C", "o", "n", "t", "e", "n", "t", " ", "S", "t", "r", "a", "t", "e", "g", "i", "s", "t">>},
    HighFitForInterpersonalRoles |->
        {<<"S", "a", "l", "e", "s", " ", "M", "a", "n", "a", "g", "e", "r">>,
         <<"A", "c", "c", "o", "u", "n", "t", " ", "M", "a", "n", "a", "g", "e", "r">>,
         <<"C", "o", "m", "m", "u", "n", "i", "t", "y", " ", "M", "a", "n", "a", "g", "e", "r">>}]

FieldIT == <<"I", "T">>
FieldChoices == {None, Some(<<>>), Some(FieldIT)}

\* Skill vocabularies
ReqHardPool == <<<<"P", "y", "t", "h", "o", "n">>, <<"S", "Q", "L">>, <<"G", "i", "t">>, <<"L", "i", "n", "u", "x">>, <<"D", "o", "c", "k", "e", "r">>, <<"S", "p", "a", "r", "k">>>>
ReqSoftPool == <<<<"T", "e", "a", "m", "w", "o", "r", "k">>>>
AppHardPool == <<<<"p", "y", "t", "h", "o", "n">>, <<"S", "Q", "L">>, <<"g", "i", "t">>, <<"L", "i", "n", "u", "x">>, <<"e", "x", "c", "e", "l">>>>
AppSoftPool == <<<<"t", "e", "a", "m", "w", "o", "r", "k">>, <<"P", "y", "t", "h", "o", "n">>>>

Prefix(s, k) == SubSeq(s, 1, Min(k, Len(s)))

\* The sublists of s, in the order of s
RECURSIVE SubLists(_)
SubLists(s) ==
    IF s = <<>> THEN {<<>>}
    ELSE LET rest == SubLists(Tail(s))
         IN rest \cup {<<Head(s)>> \o r : r \in rest}

\* k skills that no job requires: "xa", "xb", "xc", ...
ExtraSkills(k) == [i \in 1..k |-> <<"x", LowerAlpha[((i - 1) % Len(LowerAlpha)) + 1]>>]

RequiredChoices ==
    {[hard_skills |-> Prefix(ReqHardPool, k), soft_skills |-> s] :
        k \in 0..MaxRequired, s \in SubLists(ReqSoftPool)}

\* The ontology declares the same requirement for every job class it has;
\* BaristaTitle is no class of it.
Ontology(req) == [j \in JobNames \ {BaristaTitle} |-> req]

Applicant(scores, job, hard, soft, years, field) ==
    [scores |-> scores, categories |-> <<>>, JobOccupation |-> job,
     hard_skills |-> hard, soft_skills |-> soft,
     years_experience |-> years, job_field |-> field]

TypicalScores == [t \in Traits |-> 300]

-----------------------------------------------------------------------------
(* Trait aggregation: the questionnaire and the three aggregators *)

IdleScoring ==
    /\ applicant = Applicant(<<>>, None, <<>>, <<>>, None, None)
    /\ onto = Ontology(NoSkills)
    /\ overall = None
    /\ skill_match = None
    /\ previous = None

\* No ranking is under way
IdleRanking == entries = <<>> /\ ranked = None

\* No intake is under way, nothing is stored and no invocation runs
IdleSurroundings ==
    /\ applicant_data = <<>>
    /\ g = {}
    /\ success = None
    /\ jobs_clean = None
    /\ persons = <<>>
    /\ runs = 0
    /\ calls = <<>>

InitTraits ==
    /\ IdleSurroundings
    /\ answers = <<>>
    /\ q_num = 1
    /\ big_five = None
    /\ cli_scores = None
    /\ wf_scores = None
    /\ fp = NoTies
    /\ IdleScoring
    /\ IdleRanking

NotAggregated == big_five = None /\ cli_scores = None /\ wf_scores = None

\* The questions passed so far that have no answer or another than the default
Deviations ==
    Cardinality({q \in 1..(q_num - 1) :
                    q \notin DOMAIN answers \/ answers[q] # DefaultAnswer})

\* for q_num in range(1, 31): answers[q_num] = st.radio(options=[1, 2, 3, 4, 5], index=2)
RecordAnswer(s) ==
    /\ NotAggregated
    /\ q_num <= NumQuestions
    /\ s # DefaultAnswer => Deviations < MaxEdits
    /\ answers' = DictSet(answers, q_num, s)
    /\ q_num' = q_num + 1
    /\ UNCHANGED surroundings
    /\ UNCHANGED <<big_five, cli_scores, wf_scores, applicant, onto, overall, skill_match, fp,
                   previous, ranking>>

\* A stored person need not have an Answer individual for every question:
\* the readers of the graph collect the answers that are there.
SkipQuestion ==
    /\ NotAggregated
    /\ q_num <= NumQuestions
    /\ Deviations < MaxEdits
    /\ q_num' = q_num + 1
    /\ UNCHANGED surroundings
    /\ UNCHANGED <<answers, big_five, cli_scores, wf_scores, applicant, onto, overall,
                   skill_match, fp, previous, ranking>>

\* trait_scores = calculate_big_five(answers)
CalculateBigFive ==
    /\ big_five' = Some(calculate_big_five(answers, fp.component))
    /\ UNCHANGED surroundings
    /\ UNCHANGED <<answers, q_num, cli_scores, wf_scores, applicant, onto, overall,
                   skill_match, fp, previous, ranking>>

\* calculate_bigfive.py main: if answers: trait_scores = calculate_trait_scores(answers)
CalculateTraitScores ==
    /\ DOMAIN answers # {}
    /\ cli_scores' = Some(calculate_trait_scores(answers, fp.component))
    /\ UNCHANGED surroundings
    /\ UNCHANGED <<answers, q_num, big_five, wf_scores, applicant, onto, overall,
                   skill_match, fp, previous, ranking>>

\* workflow_simple.py step1_calculate_scores, for one person
Step1CalculateScores ==
    /\ step1_trait_scores(answers, fp.component) # None
    /\ wf_scores' = step1_trait_scores(answers, fp.component)
    /\ UNCHANGED surroundings
    /\ UNCHANGED <<answers, q_num, big_five, cli_scores, applicant, onto, overall,
                   skill_match, fp, previous, ranking>>

NextTraits ==
    \/ \E s \in LikertScores : RecordAnswer(s)
    \/ SkipQuestion
    \/ CalculateBigFive
    \/ CalculateTraitScores
    \/ Step1CalculateScores

SpecTraits == InitTraits /\ [][NextTraits]_vars

\* The form as InitTraits has it, with either direction of decimal ties
InitPersonality ==
    /\ IdleSurroundings
    /\ answers = <<>>
    /\ q_num = 1
    /\ big_five = None
    /\ cli_scores = None
    /\ wf_scores = None
    /\ fp \in FpChoices
    /\ IdleScoring
    /\ IdleRanking

\* add_applicant_to_ontology after calculate_big_five: applicant_data_for_score
\* takes trait_scores as its scores and calculate_overall_fit_score scores it
ScoreNewApplicant ==
    /\ big_five # None
    /\ overall = None
    /\ LET applicant_data_for_score == [applicant EXCEPT !["scores"] = big_five[1]]
       IN /\ overall' = Some(OverallFitScore(onto, applicant_data_for_score, fp))
          /\ applicant' = DictSet(applicant_data_for_score, "score_breakdown",
                                  Breakdown(onto, applicant_data_for_score, fp))
    /\ UNCHANGED surroundings
    /\ UNCHANGED <<answers, q_num, big_five, cli_scores, wf_scores, onto, skill_match, fp,
                   previous, ranking>>

NextPersonality == NextTraits \/ ScoreNewApplicant

SpecPersonality == InitPersonality /\ [][NextPersonality]_vars

-----------------------------------------------------------------------------
(* Scoring: calculate_overall_fit_score and calculate_skill_match *)

IdleTraits ==
    /\ answers = <<>>
    /\ q_num = 1
    /\ big_five = None
    /\ cli_scores = None
    /\ wf_scores = None

NotScored == overall = None /\ skill_match = None /\ previous = None

\* Trait scores vary over the grid, jobs over every family; no skills
InitCategory ==
    /\ IdleSurroundings
    /\ IdleTraits
    /\ IdleRanking
    /\ NotScored
    /\ fp \in FpChoices
    /\ onto = Ontology(NoSkills)
    /\ \E scores \in ScoreDicts, job \in JobChoices :
          applicant = Applicant(scores, job, <<>>, <<>>, Some(0), None)

\* Skills vary: sublists of the applicant vocabularies against every requirement
InitSkillLists ==
    /\ IdleSurroundings
    /\ IdleTraits
    /\ IdleRanking
    /\ NotScored
    /\ fp = NoTies
    /\ \E req \in RequiredChoices : onto = Ontology(req)
    /\ \E job \in {None, Some(<<>>), Some(DataAnalystClass), Some(BaristaTitle)},
          hard \in SubLists(AppHardPool), soft \in SubLists(AppSoftPool) :
          applicant = Applicant(TypicalScores, job, hard, soft, Some(3), Some(FieldIT))

\* Skills vary: many skills outside the job's vocabulary
InitExtraSkills ==
    /\ IdleSurroundings
    /\ IdleTraits
    /\ IdleRanking
    /\ NotScored
    /\ fp = NoTies
    /\ \E req \in RequiredChoices : onto = Ontology(req)
    /\ \E k \in 0..MaxExtra, hard \in {<<>>, Prefix(AppHardPool, 2), AppHardPool} :
          applicant = Applicant(TypicalScores, Some(DataAnalystClass),
                                hard \o ExtraSkills(k), <<>>, Some(3), Some(FieldIT))

InitSkill == InitSkillLists \/ InitExtraSkills

YearsChoices == {None} \cup {Some(y) : y \in 0..MaxYears}

\* Years, job field and job vary
InitExperience ==
    /\ IdleSurroundings
    /\ IdleTraits
    /\ IdleRanking
    /\ NotScored
    /\ fp = NoTies
    /\ onto = Ontology([hard_skills |-> Prefix(ReqHardPool, 2), soft_skills |-> <<>>])
    /\ \E years \in YearsChoices, field \in FieldChoices,
          job \in {None, Some(<<>>), Some(DataAnalystClass)},
          scores \in {<<>>, TypicalScores} :
          applicant = Applicant(scores, job, Prefix(AppHardPool, 1), <<>>, years, field)

InitScore == InitCategory \/ InitSkill \/ InitExperience

\* overall_score = calculate_overall_fit_score(applicant): the return value,
\* and applicant['score_breakdown'] = breakdown
CalculateOverallFitScore ==
    /\ overall' = Some(OverallFitScore(onto, applicant, fp))
    /\ applicant' = DictSet(applicant, "score_breakdown", Breakdown(onto, applicant, fp))
    /\ previous' = IF overall = None THEN None
                   ELSE Some([total |-> overall[1],
                              score_breakdown |-> applicant["score_breakdown"]])
    /\ UNCHANGED surroundings
    /\ UNCHANGED <<answers, q_num, big_five, cli_scores, wf_scores, onto, skill_match, fp,
                   ranking>>

\* calculate_skill_match(applicant['hard_skills'], applicant['soft_skills'],
\*                       applicant['JobOccupation'])
CalculateSkillMatch ==
    /\ skill_match' = Some(calculate_skill_match(onto, applicant["hard_skills"],
                                                 applicant["soft_skills"],
                                                 applicant["JobOccupation"], fp.component))
    /\ UNCHANGED surroundings
    /\ UNCHANGED <<answers, q_num, big_five, cli_scores, wf_scores, applicant, onto,
                   overall, fp, previous, ranking>>

NextScore == CalculateOverallFitScore \/ CalculateSkillMatch

SpecCategory == InitCategory /\ [][CalculateOverallFitScore]_vars
SpecSkill == InitSkill /\ [][NextScore]_vars
SpecExperience == InitExperience /\ [][CalculateOverallFitScore]_vars
SpecScore == InitScore /\ [][CalculateOverallFitScore]_vars

\* An applicant with all five traits applies for a job title that
\* JOB_CATEGORIES lists
InitCatalog ==
    /\ IdleSurroundings
    /\ IdleTraits
    /\ IdleRanking
    /\ NotScored
    /\ fp \in FpChoices
    /\ onto = Ontology(NoSkills)
    /\ \E scores \in {d \in ScoreDicts : DOMAIN d = Traits},
          key \in DOMAIN JOB_CATEGORIES :
          \E title \in JOB_CATEGORIES[key] :
             applicant = Applicant(scores, Some(title), <<>>, <<>>, Some(0), None)

SpecCatalog == InitCatalog /\ [][CalculateOverallFitScore]_vars

-----------------------------------------------------------------------------
(* The role classifier of get_all_applicants *)

Analytical == "HighFitForAnalyticalRoles"
Technical == "HighFitForTechnicalRoles"
Support == "HighFitForSupportRoles"
Writing == "HighFitForWritingRoles"
Interpersonal == "HighFitForInterpersonalRoles"

\* The decision list with every rule that holds appending its category
RoleCategoriesEveryRule(scores) ==
    IF DOMAIN scores # {}
    THEN LET openness == Get(scores, "Openness", 0)
             conscientiousness == Get(scores, "Conscientiousness", 0)
             extraversion == Get(scores, "Extraversion", 0)
             agreeableness == Get(scores, "Agreeableness", 0)
             neuroticism == Get(scores, "Neuroticism", 0)
         IN (IF conscientiousness >= 400 /\ openness >= 450 /\ neuroticism <= 250
             THEN <<Analytical>> ELSE <<>>)
            \o (IF conscientiousness >= 300 THEN <<Technical>> ELSE <<>>)
            \o (IF agreeableness >= 400 /\ extraversion >= 350 THEN <<Support>> ELSE <<>>)
            \o (IF openness >= 400 THEN <<Writing>> ELSE <<>>)
            \o (IF extraversion >= 400 THEN <<Interpersonal>> ELSE <<>>)
    ELSE <<>>

\* What the if/elif chain appends to applicant_data['categories']; the
\* thresholds 4.0, 4.5, 2.5, 3.0 and 3.5 in hundredths
RoleCategories(scores) ==
    IF DOMAIN scores # {}
    THEN LET openness == Get(scores, "Openness", 0)
             conscientiousness == Get(scores, "Conscientiousness", 0)
             extraversion == Get(scores, "Extraversion", 0)
             agreeableness == Get(scores, "Agreeableness", 0)
             neuroticism == Get(scores, "Neuroticism", 0)
         IN IF conscientiousness >= 400 /\ openness >= 450 /\ neuroticism <= 250
            THEN <<Analytical>>
            ELSE IF conscientiousness >= 300 THEN <<Technical>>
            ELSE IF agreeableness >= 400 /\ extraversion >= 350 THEN <<Support>>
            ELSE IF openness >= 400 THEN <<Writing>>
            ELSE IF extraversion >= 400 THEN <<Interpersonal>>
            ELSE <<>>
    ELSE <<>>

\* Trait values on both sides of every threshold, 0 meaning the trait is absent
ClassifierGrid ==
    [Openness |-> {0, 399, 400, 449, 450, 460},
     Conscientiousness |-> {0, 299, 300, 399, 400, 420},
     Extraversion |-> {0, 349, 350, 399, 400},
     Agreeableness |-> {0, 399, 400},
     Neuroticism |-> {0, 200, 250, 251, 300}]

ClassifierScoreDicts ==
    {ToScores([Openness |-> o, Conscientiousness |-> c, Extraversion |-> e,
               Agreeableness |-> a, Neuroticism |-> n]) :
        o \in ClassifierGrid.Openness, c \in ClassifierGrid.Conscientiousness,
        e \in ClassifierGrid.Extraversion, a \in ClassifierGrid.Agreeableness,
        n \in ClassifierGrid.Neuroticism}

\* A person as get_all_applicants reads it from the ontology, before the
\* skill match and the categories are filled in
InitClassifier ==
    /\ IdleSurroundings
    /\ IdleTraits
    /\ IdleRanking
    /\ NotScored
    /\ fp = NoTies
    /\ onto = Ontology(NoSkills)
    /\ \E scores \in ClassifierScoreDicts, job \in {None, Some(DataAnalystClass)} :
          applicant = Applicant(scores, job, <<>>, <<>>, None, None)

\* get_all_applicants, for one person: skill_match_percentage, then the categories
ClassifyApplicant ==
    /\ "skill_match_percentage" \notin DOMAIN applicant
    /\ LET match_pct == IF TruthyStr(applicant["JobOccupation"])
                        THEN calculate_skill_match(onto, applicant["hard_skills"],
                                                   applicant["soft_skills"],
                                                   applicant["JobOccupation"],
                                                   fp.component).pct
                        ELSE 0
           scored_data == DictSet(applicant, "skill_match_percentage", match_pct)
       IN applicant' = [scored_data EXCEPT
                           !["categories"] = @ \o RoleCategories(applicant["scores"])]
    /\ UNCHANGED surroundings
    /\ UNCHANGED <<answers, q_num, big_five, cli_scores, wf_scores, onto, overall,
                   skill_match, fp, previous, ranking>>

SpecClassifier == InitClassifier /\ [][ClassifyApplicant]_vars

-----------------------------------------------------------------------------
(* Rankings: the sorts of the results view, determine_top_percentage,        *)
(* rank_top10.py and the leaderboard of app.py                               *)

\* The characters of the model in the order of their code points
CodePointOrder == <<" ", "/">> \o UpperAlpha \o <<"_">> \o LowerAlpha

Ord(c) == CHOOSE i \in 1..Len(CodePointOrder) : CodePointOrder[i] = c

\* a < b for two str: the first differing character decides, a proper prefix
\* is smaller
StrLess(a, b) ==
    \E k \in 1..(Min(Len(a), Len(b)) + 1) :
        /\ \A i \in 1..(k - 1) : a[i] = b[i]
        /\ \/ k > Len(a) /\ k <= Len(b)
           \/ k <= Len(a) /\ k <= Len(b) /\ Ord(a[k]) < Ord(b[k])

\* a < b for two fractions with positive denominators
FLess(a, b) == a[1] * b[2] < b[1] * a[2]

\* The order with the ascending stable order turned round, which turns the
\* elements that compare equal round as well
ReversedAscendingOrder(n, before) ==
    LET Tied(i, j) == <<i, j>> \notin before /\ <<j, i>> \notin before
        Rank(i) == 1 + Cardinality({j \in 1..n : <<j, i>> \in before \/ (Tied(i, j) /\ j > i)})
    IN [r \in 1..n |-> CHOOSE i \in 1..n : Rank(i) = r]

\* The order list.sort() and sorted() give n elements, as the indices of the
\* input: <<i, j>> \in before says that the key of element i goes before
\* that of element j (smaller, or greater under reverse=True). The sort is
\* stable, under reverse=True too: elements neither of which goes before the
\* other stay in their input order.
StableOrder(n, before) ==
    LET Tied(i, j) == <<i, j>> \notin before /\ <<j, i>> \notin before
        Rank(i) == 1 + Cardinality({j \in 1..n : <<j, i>> \in before \/ (Tied(i, j) /\ j < i)})
    IN [r \in 1..n |-> CHOOSE i \in 1..n : Rank(i) = r]

Reorder(s, order) == [r \in 1..Len(s) |-> s[order[r]]]

\* x.get('overall_fit_score', 0), the total_score of the other rankers
ScoreKey(x) == IF x.overall_fit_score = None THEN 0 ELSE x.overall_fit_score[1]

\* sum(x['scores'].values()) / len(x['scores']) if x['scores'] else 0
PersonalityKey(x) ==
    IF DOMAIN x.scores # {}
    THEN Frac(SumValues(x.scores, DOMAIN x.scores), Cardinality(DOMAIN x.scores))
    ELSE FInt(0)

\* sorted(results, key=lambda x: x['total_score'], reverse=True)
SortedByTotalScore(results) ==
    Reorder(results,
            StableOrder(Len(results),
                        {p \in (1..Len(results)) \X (1..Len(results)) :
                            ScoreKey(results[p[1]]) > ScoreKey(results[p[2]])}))

\* applicants.sort(...) for the four choices of sort_by
SortedBy(sort_by, applicants) ==
    LET n == Len(applicants)
        pairs == (1..n) \X (1..n)
        before ==
            IF sort_by = "Highest Score"
            THEN {p \in pairs : ScoreKey(applicants[p[1]]) > ScoreKey(applicants[p[2]])}
            ELSE IF sort_by = "Skill Match"
            THEN {p \in pairs : applicants[p[1]].skill_match_percentage
                                    > applicants[p[2]].skill_match_percentage}
            ELSE IF sort_by = "Name (A-Z)"
            THEN {p \in pairs : StrLess(applicants[p[1]].name, applicants[p[2]].name)}
            ELSE {p \in pairs : FLess(PersonalityKey(applicants[p[2]]),
                                      PersonalityKey(applicants[p[1]]))}
    IN Reorder(applicants, StableOrder(n, before))

\* df.sort_values(by="Skor Akhir", ascending=False): the default kind of
\* sort_values is quicksort, which fixes no order among equal keys, so every
\* descending arrangement is a possible outcome (one, when no key repeats)
SortValuesDescending(data) ==
    LET n == Len(data)
    IN IF \A i, j \in 1..n : i # j => ScoreKey(data[i]) # ScoreKey(data[j])
       THEN {SortedByTotalScore(data)}
       ELSE {Reorder(data, order) :
                order \in {o \in [1..n -> 1..n] :
                              /\ \A i, j \in 1..n : i # j => o[i] # o[j]
                              /\ \A r \in 1..(n - 1) :
                                    ScoreKey(data[o[r]]) >= ScoreKey(data[o[r + 1]])}}

\* The count without the floor of 1
TopCountIntUnclamped(total_applicants, threshold) ==
    (total_applicants * threshold) \div 100

\* max(1, int(total_applicants * (threshold / 100))): int() drops the
\* fraction, and for the sizes and thresholds of the model the float product
\* has the integer part of the exact one
TopCountInt(total_applicants, threshold) ==
    IF (total_applicants * threshold) \div 100 >= 1
    THEN (total_applicants * threshold) \div 100 ELSE 1

\* max(1, math.ceil(len(rows) * 0.10)); the float product has the ceiling of
\* the exact one for the sizes of the model
TopCountCeil(n) == IF (n + 9) \div 10 >= 1 THEN (n + 9) \div 10 ELSE 1

\* Names of persons; "Zoe" < "ada" by code points, "Ad" < "Ada" as a prefix
NamePool == {<<"Z", "o", "e">>, <<"a", "d", "a">>, <<"A", "d", "a">>, <<"A", "d">>}

\* What get_all_applicants read of a person besides the name. The trait
\* values are binary fractions: the float sum and mean of the personality
\* key are then exact.
Profiles ==
    {[scores |-> [Openness |-> 450, Conscientiousness |-> 400],
      overall_fit_score |-> Some(7250), skill_match_percentage |-> 1000],
     [scores |-> [Openness |-> 400, Conscientiousness |-> 450],
      overall_fit_score |-> Some(7250), skill_match_percentage |-> 500],
     [scores |-> TypicalScores,
      overall_fit_score |-> Some(6000), skill_match_percentage |-> 1000],
     [scores |-> TypicalScores,
      overall_fit_score |-> None, skill_match_percentage |-> 500],
     [scores |-> <<>>,
      overall_fit_score |-> None, skill_match_percentage |-> 0]}

Entry(name, profile) ==
    [name |-> name, scores |-> profile.scores,
     overall_fit_score |-> profile.overall_fit_score,
     skill_match_percentage |-> profile.skill_match_percentage,
     score_breakdown |-> None]

\* Every list of up to MaxEntries persons of different names
ShortEntries ==
    UNION {{[i \in 1..n |-> Entry(names[i], profiles[i])] :
               names \in {f \in [1..n -> NamePool] : \A i, j \in 1..n : i # j => f[i] # f[j]},
               profiles \in [1..n -> Profiles]} : n \in 0..MaxEntries}

\* n entries of different total scores, named "aa", "ab", ...
LongList(n) ==
    [i \in 1..n |->
        Entry(<<LowerAlpha[((i - 1) \div Len(LowerAlpha)) + 1],
                LowerAlpha[((i - 1) % Len(LowerAlpha)) + 1]>>,
              [scores |-> TypicalScores,
               overall_fit_score |-> Some(((i * 37) % 101) * 100),
               skill_match_percentage |-> (i % 3) * 500])]

LongEntries == {LongList(n) : n \in (MaxEntries + 1)..MaxRanked}

InitRanking ==
    /\ IdleSurroundings
    /\ IdleTraits
    /\ IdleScoring
    /\ fp = NoTies
    /\ ranked = None
    /\ entries \in ShortEntries \cup LongEntries

\* The results view before it sorts: an applicant without a stored total is
\* scored, one with a stored total and no breakdown only gets the breakdown.
\* The entries of the model have no job, skills or years stored.
WithScores(app) ==
    LET a == Applicant(app.scores, None, <<>>, <<>>, None, None)
    IN IF app.overall_fit_score = None
       THEN [app EXCEPT !.overall_fit_score = Some(OverallFitScore(onto, a, fp)),
                        !.score_breakdown = Some(Breakdown(onto, a, fp))]
       ELSE IF app.score_breakdown = None
       THEN [app EXCEPT !.score_breakdown = Some(Breakdown(onto, a, fp))]
       ELSE app

SortChoices == {"Highest Score", "Skill Match", "Name (A-Z)", "Personality Score"}

\* The View Results page: every run of it sorts the list that
\* get_all_applicants has just read
ViewResults(sort_by) ==
    /\ ranked' = Some([by |-> sort_by, threshold |-> None,
                       sorted |-> SortedBy(sort_by, [i \in 1..Len(entries) |->
                                                       WithScores(entries[i])]),
                       top |-> None])
    /\ UNCHANGED surroundings
    /\ UNCHANGED <<answers, q_num, big_five, cli_scores, wf_scores, applicant, onto,
                   overall, skill_match, fp, previous, entries>>

\* The other rankers take entries that carry a total score each
HaveTotals == \A i \in 1..Len(entries) : entries[i].overall_fit_score # None

Thresholds == {1, 10, 50, 100}

\* rank_applicants.py: determine_top_percentage(results, threshold)
DetermineTopPercentage(threshold) ==
    /\ HaveTotals
    /\ LET sorted_results == SortedByTotalScore(entries)
           top_count == TopCountInt(Len(sorted_results), threshold)
       IN ranked' = Some([by |-> "determine_top_percentage", threshold |-> Some(threshold),
                          sorted |-> sorted_results,
                          top |-> Some(Prefix(sorted_results, top_count))])
    /\ UNCHANGED surroundings
    /\ UNCHANGED <<answers, q_num, big_five, cli_scores, wf_scores, applicant, onto,
                   overall, skill_match, fp, previous, entries>>

\* scripts/rank_top10.py main: nothing is ranked when there are no rows
RankTop10 ==
    /\ HaveTotals
    /\ entries # <<>>
    /\ LET rows == SortedByTotalScore(entries)
           k == TopCountCeil(Len(rows))
       IN ranked' = Some([by |-> "rank_top10", threshold |-> Some(10),
                          sorted |-> rows, top |-> Some(Prefix(rows, k))])
    /\ UNCHANGED surroundings
    /\ UNCHANGED <<answers, q_num, big_five, cli_scores, wf_scores, applicant, onto,
                   overall, skill_match, fp, previous, entries>>

\* app.py, the recruiter's leaderboard: shown when there are candidates
RekruterLeaderboard ==
    /\ HaveTotals
    /\ entries # <<>>
    /\ \E df \in SortValuesDescending(entries) :
          LET top_n == TopCountInt(Len(df), 10)
          IN ranked' = Some([by |-> "leaderboard", threshold |-> Some(10),
                             sorted |-> df, top |-> Some(Prefix(df, top_n))])
    /\ UNCHANGED surroundings
    /\ UNCHANGED <<answers, q_num, big_five, cli_scores, wf_scores, applicant, onto,
                   overall, skill_match, fp, previous, entries>>

NextRanking ==
    \/ \E sort_by \in SortChoices : ViewResults(sort_by)
    \/ \E threshold \in Thresholds : DetermineTopPercentage(threshold)
    \/ RankTop10
    \/ RekruterLeaderboard

SpecRanking == InitRanking /\ [][NextRanking]_vars

-----------------------------------------------------------------------------
(* add_applicant.py: the intake of one applicant into the graph *)

\* Literal(value, datatype=XSD.integer)
Literal(value) == <<"Literal", ToString(value)>>

\* add_applicant_to_graph(g, applicant_data): the graph it leaves and the
\* value it returns. A triple is <<subject, predicate, object>>; ONTO[...] of
\* a name put together from parts is the tuple of the parts.
add_applicant_to_graph(graph, data) ==
    LET name == data["name"]
        person_uri == <<name>>
        person == {<<person_uri, "rdf:type", <<"owl:NamedIndividual">>>>,
                   <<person_uri, "rdf:type", <<"Person">>>>}
        the_answers == Get(data, "answers", <<>>)
        answer_uri(i) == <<name, "Ans_Q", ToString(i)>>
        answer_triples ==
            UNION {{<<answer_uri(i), "rdf:type", <<"owl:NamedIndividual">>>>,
                    <<answer_uri(i), "rdf:type", <<"Answer">>>>,
                    <<answer_uri(i), "forQuestion", <<"Q", ToString(i)>>>>,
                    <<answer_uri(i), "answerScore", Literal(the_answers[i])>>,
                    <<person_uri, "hasAnswer", answer_uri(i)>>} :
                   i \in 1..Len(the_answers)}
        exp_uri == <<name, "Experience">>
        experience ==
            IF "experience" \in DOMAIN data
            THEN {<<exp_uri, "rdf:type", <<"owl:NamedIndividual">>>>,
                  <<exp_uri, "rdf:type", <<"Experience">>>>,
                  <<exp_uri, "experienceInField", <<data["experience"].field>>>>,
                  <<exp_uri, "yearsOfExperience", Literal(data["experience"].years)>>,
                  <<person_uri, "hasExperience", exp_uri>>}
            ELSE {}
        skills == Get(data, "skills", <<>>)
        hard == Get(skills, "hard_skills", <<>>)
        soft == Get(skills, "soft_skills", <<>>)
        skill_triples ==
            {<<person_uri, "hasHardSkill", <<hard[i]>>>> : i \in 1..Len(hard)}
                \cup {<<person_uri, "hasSoftSkill", <<soft[i]>>>> : i \in 1..Len(soft)}
        app_uri == <<name, "Application">>
        application ==
            {<<app_uri, "rdf:type", <<"owl:NamedIndividual">>>>,
             <<app_uri, "rdf:type", <<"Application">>>>,
             <<app_uri, "hasApplicant", person_uri>>,
             <<app_uri, "forJob", <<Get(data, "job", "DataScientist")>>>>}
    IN IF Len(the_answers) # NumQuestions
       THEN [g |-> graph \cup person, returned |-> FALSE]
       ELSE [g |-> graph \cup person \cup answer_triples \cup experience
                     \cup skill_triples \cup application,
             returned |-> TRUE]

\* What the JSON file or the prompts can hold: any number of answers, the
\* experience, skills and job present or not
ApplicantDataChoices ==
    LET full == {[name |-> n, answers |-> [i \in 1..len |-> score],
                  experience |-> [field |-> "DataScience", years |-> 4],
                  skills |-> sk, job |-> "DataAnalyst"] :
                    n \in {"John", "Jane"},
                    len \in {0, NumQuestions - 1, NumQuestions, NumQuestions + 1},
                    score \in {1, DefaultAnswer},
                    sk \in {[hard_skills |-> <<"PythonSkill", "SQLSkill">>,
                             soft_skills |-> <<"CommunicationSkill">>],
                            [hard_skills |-> <<"PythonSkill">>]}}
    IN UNION {{d, [k \in DOMAIN d \ {"experience"} |-> d[k]],
               [k \in DOMAIN d \ {"skills", "job"} |-> d[k]],
               [k \in {"name", "answers"} |-> d[k]]} : d \in full}

\* main() has read the applicant and parsed jobs.ttl, which may already
\* hold a person of the name
InitIntake ==
    /\ IdleTraits
    /\ IdleScoring
    /\ IdleRanking
    /\ fp = NoTies
    /\ applicant_data \in ApplicantDataChoices
    /\ \E known \in SUBSET {"John"} :
          g = {<<<<"Q", ToString(i)>>, "rdf:type", <<"Question">>>> :
                  i \in 1..NumQuestions}
              \cup UNION {{<<<<n>>, "rdf:type", <<"owl:NamedIndividual">>>>,
                            <<<<n>>, "rdf:type", <<"Person">>>>} : n \in known}
    /\ success = None
    /\ jobs_clean = None
    /\ persons = <<>>
    /\ runs = 0
    /\ calls = <<>>

\* main(): success = add_applicant_to_graph(g, applicant_data), and the
\* graph is serialised to jobs_clean.ttl if success
Main ==
    /\ success = None
    /\ LET outcome == add_applicant_to_graph(g, applicant_data)
       IN /\ g' = outcome.g
          /\ success' = Some(outcome.returned)
          /\ jobs_clean' = IF outcome.returned THEN Some(outcome.g) ELSE jobs_clean
    /\ UNCHANGED <<answers, q_num, big_five, cli_scores, wf_scores, applicant, onto,
                   overall, skill_match, fp, previous, ranking, applicant_data,
                   persons, runs, calls>>

SpecIntake == InitIntake /\ [][Main]_vars

-----------------------------------------------------------------------------
(* run_complete_workflow: the scores of the stored persons *)

\* The four score properties the workflow looks at and writes
ScoreProperties ==
    {"hasWeightedScore", "hasCategoryFitScore", "hasSkillMatchScore", "hasExperienceScore"}

\* need_analysis: none of the four properties holds a positive value. A
\* person is a dict of its properties; a property without a value is no key.
NeedAnalysis(person) ==
    ~\E prop \in ScoreProperties : prop \in DOMAIN person /\ person[prop] > 0

\* preserve_or_update(prop, new_val) on the person
preserve_or_update(person, prop, new_val) ==
    LET old_val == Get(person, prop, 0)
    IN IF new_val > 0 THEN DictSet(person, prop, new_val)
       ELSE IF old_val > 0 THEN DictSet(person, prop, old_val)
       ELSE person

\* The body of the loop over new_applicants
Analysed(o, person, f) ==
    LET trait_scores == calculate_big_five(person["hasAnswer"], f.component)
        property(t) ==
            CASE t = "Agreeableness" -> "hasAgreeablenessScore"
              [] t = "Conscientiousness" -> "hasConscientiousnessScore"
              [] t = "Extraversion" -> "hasExtraversionScore"
              [] t = "Neuroticism" -> "hasNeuroticismScore"
              [] t = "Openness" -> "hasOpennessScore"
        written == {property(t) : t \in DOMAIN trait_scores}
        with_traits ==
            [k \in DOMAIN person \cup written |->
                IF k \in written
                THEN trait_scores[CHOOSE t \in DOMAIN trait_scores : property(t) = k]
                ELSE person[k]]
        years == IF person["hasYearsOfExperience"] # None
                 THEN person["hasYearsOfExperience"][1] ELSE 0
        the_applicant ==
            Applicant(trait_scores, person["hasJobOccupation"], person["hasHardSkill"],
                      person["hasSoftSkill"], Some(years), person["inJobField"])
        overall_score == OverallFitScore(o, the_applicant, f)
        score_breakdown == Breakdown(o, the_applicant, f)
        p1 == preserve_or_update(with_traits, "hasWeightedScore", overall_score)
        p2 == preserve_or_update(p1, "hasCategoryFitScore", score_breakdown["category_fit"])
        p3 == preserve_or_update(p2, "hasSkillMatchScore", score_breakdown["skill_match"])
        p4 == preserve_or_update(p3, "hasExperienceScore", score_breakdown["experience"])
    IN IF DOMAIN person["hasAnswer"] = {} THEN person
       ELSE [p4 EXCEPT !["hasYearsOfExperience"] = Some(years)]

\* A stored person: no answers, the 30 default answers or only Q1..Q6; a
\* job or none; and scores stored earlier: none, a weighted score and a
\* trait score entered by hand, the trait scores of calculate_bigfive.py
\* alone, zeros, or a category-fit score alone
PersonChoices ==
    {[k \in DOMAIN stored \cup
              {"hasAnswer", "hasJobOccupation", "hasHardSkill", "hasSoftSkill",
               "hasYearsOfExperience", "inJobField"} |->
         CASE k = "hasAnswer" -> ans
           [] k = "hasJobOccupation" -> job
           [] k = "hasHardSkill" -> Prefix(AppHardPool, 1)
           [] k = "hasSoftSkill" -> <<>>
           [] k = "hasYearsOfExperience" -> Some(3)
           [] k = "inJobField" -> Some(FieldIT)
           [] OTHER -> stored[k]] :
        ans \in {<<>>, [q \in 1..NumQuestions |-> DefaultAnswer], [q \in 1..6 |-> 4]},
        job \in {None, Some(DataAnalystClass)},
        stored \in {<<>>,
                    [hasWeightedScore |-> 100, hasOpennessScore |-> 100],
                    [hasOpennessScore |-> 500, hasNeuroticismScore |-> 200],
                    [p \in ScoreProperties |-> 0],
                    [hasCategoryFitScore |-> 500]}}

InitWorkflow ==
    /\ IdleTraits
    /\ IdleRanking
    /\ applicant = Applicant(<<>>, None, <<>>, <<>>, None, None)
    /\ NotScored
    /\ fp \in FpChoices
    /\ onto = Ontology([hard_skills |-> Prefix(ReqHardPool, 2), soft_skills |-> <<>>])
    /\ applicant_data = <<>>
    /\ g = {}
    /\ success = None
    /\ jobs_clean = None
    /\ persons \in UNION {[1..n -> PersonChoices] : n \in 1..MaxPersons}
    /\ runs = 0
    /\ calls = <<>>

\* run_complete_workflow(): every person that needs analysis is scored, and
\* the ontology is saved
RunCompleteWorkflow ==
    /\ runs < MaxRuns
    /\ persons' = [i \in DOMAIN persons |->
                      IF NeedAnalysis(persons[i]) THEN Analysed(onto, persons[i], fp)
                      ELSE persons[i]]
    /\ runs' = runs + 1
    /\ UNCHANGED <<answers, q_num, big_five, cli_scores, wf_scores, applicant, onto,
                   overall, skill_match, fp, previous, ranking, applicant_data, g,
                   success, jobs_clean, calls>>

SpecWorkflow == InitWorkflow /\ [][RunCompleteWorkflow]_vars

-----------------------------------------------------------------------------
(* Concurrent invocations of calculate_overall_fit_score and calculate_big_five *)

\* The accumulator of every invocation is that of the first one
SharedScore(cs, i) == cs[1].score

\* score: a local of the invocation, started at 0
LocalScore(cs, i) == cs[i].score

\* One statement group of calculate_overall_fit_score in invocation i: the
\* personality, category-fit, skill-match and experience components in turn,
\* the last one storing the breakdown in the applicant and returning
StepOverallFit(cs, i, o, f) ==
    LET c == cs[i]
        a == c.applicant
        JobOccupation == Get(a, "JobOccupation", None)
        scores == a["scores"]
        score == LocalScore(cs, i)
        b == c.breakdown
    IN CASE c.pc = 0 ->
              [c EXCEPT !.pc = 1,
                        !.score = FAdd(score, PersonalityScore(scores)),
                        !.breakdown =
                            [k \in {"personality"} |->
                                IF DOMAIN scores # {}
                                THEN Round2(PersonalityScore(scores), f.component) ELSE 0]]
         [] c.pc = 1 ->
              [c EXCEPT !.pc = 2,
                        !.score = FAdd(score, CategoryScore(scores, NormalizedJob(JobOccupation))),
                        !.breakdown =
                            DictSet(b, "category_fit",
                                    Round2(CategoryScore(scores, NormalizedJob(JobOccupation)),
                                           f.component))]
         [] c.pc = 2 ->
              [c EXCEPT !.pc = 3,
                        !.score = FAdd(score, SkillComponent(o, a)),
                        !.breakdown =
                            LET b3 == DictSet(b, "skill_match",
                                              Round2(SkillComponent(o, a), f.component))
                            IN IF TruthyStr(JobOccupation) /\ AllRequired(o, a) # <<>>
                               THEN DictSet(DictSet(b3,
                                        "matched_skills",
                                        Len(MatchedSkills(AllApplicant(a), AllRequired(o, a)))),
                                        "required_skills", Len(AllRequired(o, a)))
                               ELSE b3]
         [] c.pc = 3 ->
              LET experience_score ==
                      ExperienceScore(YearsExp(a), Get(a, "job_field", None), JobOccupation)
                  breakdown == DictSet(DictSet(b, "experience", experience_score),
                                       "years_experience", YearsExp(a))
              IN [c EXCEPT !.pc = 4,
                           !.score = FAdd(score, FInt(experience_score)),
                           !.breakdown = breakdown,
                           !.applicant = DictSet(a, "score_breakdown", breakdown),
                           !.returned = Some(Round2(FAdd(score, FInt(experience_score)),
                                                    f.total))]

\* One turn of the loop of calculate_big_five over TRAIT_MAPPING.items(), the
\* turn after the last trait returning trait_scores
StepBigFive(c, f) ==
    LET order == <<"Openness", "Conscientiousness", "Extraversion", "Agreeableness",
                   "Neuroticism">>
    IN IF c.pc < Len(order)
       THEN LET trait == order[c.pc + 1]
                the_scores == AnsweredScores(c.answers, TRAIT_MAPPING[trait])
            IN [c EXCEPT !.pc = c.pc + 1,
                         !.trait_scores =
                             IF the_scores # <<>>
                             THEN DictSet(@, trait, MeanRounded(the_scores, f.component))
                             ELSE @]
       ELSE [c EXCEPT !.pc = c.pc + 1, !.returned = Some(c.trait_scores)]

\* An invocation before its first statement, on an applicant or an answer
\* dict of its own
CallChoices ==
    {[fn |-> "calculate_overall_fit_score", applicant |-> a, answers |-> <<>>,
      pc |-> 0, score |-> FInt(0),
      breakdown |-> <<>>, trait_scores |-> <<>>, returned |-> None, interleaved |-> FALSE] :
        a \in {Applicant(TypicalScores, Some(DataAnalystClass), Prefix(AppHardPool, 2), <<>>,
                         Some(3), Some(FieldIT)),
               Applicant([Openness |-> 450, Conscientiousness |-> 400], Some(BaristaTitle),
                         Prefix(AppHardPool, 1), Prefix(AppSoftPool, 1), Some(12), None),
               Applicant(<<>>, None, <<>>, <<>>, None, None)}}
    \cup
    {[fn |-> "calculate_big_five", applicant |-> <<>>, answers |-> ans,
      pc |-> 0, score |-> FInt(0),
      breakdown |-> <<>>, trait_scores |-> <<>>, returned |-> None, interleaved |-> FALSE] :
        ans \in {[q \in 1..NumQuestions |-> DefaultAnswer],
                 [q \in 1..NumQuestions |-> (q % 5) + 1],
                 [q \in 1..6 |-> 4]}}

InitConcurrent ==
    /\ IdleTraits
    /\ IdleRanking
    /\ applicant = Applicant(<<>>, None, <<>>, <<>>, None, None)
    /\ NotScored
    /\ fp = NoTies
    /\ onto = Ontology([hard_skills |-> Prefix(ReqHardPool, 2), soft_skills |-> <<>>])
    /\ applicant_data = <<>>
    /\ g = {}
    /\ success = None
    /\ jobs_clean = None
    /\ persons = <<>>
    /\ runs = 0
    /\ calls \in UNION {[1..n -> CallChoices] : n \in 2..MaxCalls}

\* The scheduler lets invocation i run its next statement group. interleaved
\* records, for the invocations that have begun and not returned, that
\* another one ran in between.
Step(i) ==
    /\ calls[i].returned = None
    /\ calls' = [j \in DOMAIN calls |->
                    IF j = i
                    THEN IF calls[i].fn = "calculate_big_five"
                         THEN StepBigFive(calls[i], fp)
                         ELSE StepOverallFit(calls, i, onto, fp)
                    ELSE IF calls[j].pc > 0 /\ calls[j].returned = None
                         THEN [calls[j] EXCEPT !.interleaved = TRUE]
                         ELSE calls[j]]
    /\ UNCHANGED <<answers, q_num, big_five, cli_scores, wf_scores, applicant, onto,
                   overall, skill_match, fp, previous, ranking, applicant_data, g,
                   success, jobs_clean, persons, runs>>

SpecConcurrent == InitConcurrent /\ [][\E i \in DOMAIN calls : Step(i)]_vars

-----------------------------------------------------------------------------
(* The inputs with fp fixed give no decimal tie to any round() *)

TieFreeTraits ==
    \A mapping \in {TRAIT_MAPPING, CLI_TRAIT_MAPPING, trait_mapping} :
        \A t \in DOMAIN mapping :
            LET scores == AnsweredScores(answers, mapping[t])
            IN scores # <<>> => ~IsTie(Frac(100 * SumSeq(scores), Len(scores)))

TieFreeScore ==
    LET job == applicant["JobOccupation"]
    IN /\ ~IsTie(PersonalityScore(applicant["scores"]))
       /\ ~IsTie(CategoryScore(applicant["scores"], NormalizedJob(job)))
       /\ ~IsTie(SkillComponent(onto, applicant))
       /\ ~IsTie(RawScore(onto, applicant))
       /\ (TruthyStr(job) /\ AllRequired(onto, applicant) # <<>>) =>
              ~IsTie(Frac(1000 * Len(MatchedSkills(AllApplicant(applicant),
                                                   AllRequired(onto, applicant))),
                          Len(AllRequired(onto, applicant))))

-----------------------------------------------------------------------------
(* Properties of the trait aggregators *)

Abs(x) == IF x < 0 THEN -x ELSE x

\* The questions of a trait that have an answer, and the sum of their scores
AnsweredOf(mapping, t) == {mapping[t][i] : i \in 1..Len(mapping[t])} \cap DOMAIN answers

RECURSIVE SumOver(_)
SumOver(qs) ==
    IF qs = {} THEN 0
    ELSE LET q == CHOOSE x \in qs : TRUE IN answers[q] + SumOver(qs \ {q})

\* v hundredths is the mean of the answers to qs, to the nearest hundredth
IsRoundedMean(v, qs) ==
    2 * Abs(100 * SumOver(qs) - v * Cardinality(qs)) <= Cardinality(qs)

AggregatedBy(result, mapping) ==
    /\ DOMAIN result = {t \in Traits : AnsweredOf(mapping, t) # {}}
    /\ \A t \in DOMAIN result :
          /\ Len(mapping[t]) = 6
          /\ IsRoundedMean(result[t], AnsweredOf(mapping, t))
          /\ result[t] \in 100..500
    /\ DOMAIN answers = 1..NumQuestions => DOMAIN result = Traits

\* C3: calculate_big_five and calculate_trait_scores return a trait exactly
\* when one of its 6 mapped questions is answered, with the mean of the
\* answered questions rounded to 2 decimals as its value (within [1.00, 5.00]);
\* a trait without answers is omitted; 30 answers give all 5 traits.
C3_TraitsAreRoundedMeans ==
    /\ big_five # None => AggregatedBy(big_five[1], TRAIT_MAPPING)
    /\ cli_scores # None => AggregatedBy(cli_scores[1], CLI_TRAIT_MAPPING)

\* Both aggregators ran on a questionnaire that leaves a trait unanswered and
\* gives another a mean that needs rounding (3.33)
C3_Witness ==
    /\ big_five # None /\ cli_scores # None
    /\ DOMAIN big_five[1] # Traits /\ DOMAIN cli_scores[1] # Traits
    /\ \E t \in DOMAIN big_five[1] : big_five[1][t] = 333
    /\ \E t \in DOMAIN cli_scores[1] : cli_scores[1][t] = 333

\* C4: every trait aggregator of the system returns the same trait-to-score
\* mapping for the same answers.
C4_AggregatorsAgree ==
    /\ (big_five # None /\ cli_scores # None) => big_five = cli_scores
    /\ (big_five # None /\ wf_scores # None) => big_five = wf_scores
    /\ (cli_scores # None /\ wf_scores # None) => cli_scores = wf_scores

-----------------------------------------------------------------------------
(* Properties of the scoring functions *)

Scored == overall # None /\ "score_breakdown" \in DOMAIN applicant

TheBreakdown == applicant["score_breakdown"]

\* v is the fraction q to the nearest integer
IsNearest(v, q) == 2 * Abs(q[1] - v * q[2]) <= q[2]

NoDuplicates(s) == \A i, j \in 1..Len(s) : i # j => s[i] # s[j]

NamedJob == TruthyStr(applicant["JobOccupation"])

RequiredOfJob == IF NamedJob THEN AllRequired(onto, applicant) ELSE <<>>

ApplicantSkills == applicant["hard_skills"] \o applicant["soft_skills"]

\* The applicant satisfies the data model of the specification
SatisfiesDataModel ==
    /\ \A t \in DOMAIN applicant["scores"] : applicant["scores"][t] \in 100..500
    /\ YearsExp(applicant) >= 0
    /\ NoDuplicates(LowerAll(ApplicantSkills))
    /\ NoDuplicates(LowerAll(RequiredOfJob))

\* C1: for an applicant that satisfies the data model, the total lies in
\* [0, 100], personality in [0, 25], category_fit in [0, 20], skill_match in
\* [0, 35] and experience in [0, 20].
C1_ScoreWithinCaps ==
    (Scored /\ SatisfiesDataModel) =>
        /\ overall[1] \in 0..10000
        /\ TheBreakdown["personality"] \in 0..2500
        /\ TheBreakdown["category_fit"] \in 0..2000
        /\ TheBreakdown["skill_match"] \in 0..3500
        /\ TheBreakdown["experience"] \in 0..2000

\* A scored applicant of the data model whose skill_match is at its cap of 35
C1_Witness ==
    /\ Scored /\ SatisfiesDataModel
    /\ TheBreakdown["skill_match"] = 3500
    /\ TheBreakdown["experience"] > 0

ReportedSum ==
    TheBreakdown["personality"] + TheBreakdown["category_fit"]
        + TheBreakdown["skill_match"] + TheBreakdown["experience"]

\* C2, as claimed: the total equals exactly the sum of the four values reported
\* in the breakdown, each after its own rounding.
C2_TotalIsSumOfReported == Scored => overall[1] = ReportedSum

\* C2, amended: the total is within 0.01 of the sum of the four reported
\* values (it is the unrounded sum, rounded once), and never further.
C2_TotalNearSumOfReported == Scored => Abs(overall[1] - ReportedSum) <= 1

\* A scored applicant whose total is 0.01 away from the sum of the reported values
C2_Witness == Scored /\ Abs(overall[1] - ReportedSum) = 1

LowerSet(skills) == {Lower(skills[i]) : i \in 1..Len(skills)}

\* The elements of s at the positions where keep holds, in the order of s
Kept(s, keep(_)) ==
    LET at == {i \in 1..Len(s) : keep(s[i])}
    IN [k \in 1..Cardinality(at) |->
           s[CHOOSE i \in at : Cardinality({j \in at : j <= i}) = k]]

ExpectedMatched == Kept(ApplicantSkills, LAMBDA s : Lower(s) \in LowerSet(RequiredOfJob))
ExpectedMissing == Kept(RequiredOfJob, LAMBDA s : Lower(s) \notin LowerSet(ApplicantSkills))
ExpectedAdditional ==
    Kept(ApplicantSkills, LAMBDA s : Lower(s) \notin LowerSet(RequiredOfJob))

\* C5: for a job with required skills, calculate_skill_match returns as
\* matched the applicant skills whose lowercase form is the lowercase form of
\* a required skill, as missing the required skills whose lowercase form is
\* that of no applicant skill, and |matched| / |required| * 100 rounded to 1
\* decimal as the percentage.
C5_SkillMatchLists ==
    (skill_match # None /\ NamedJob /\ RequiredOfJob # <<>>) =>
        /\ skill_match[1].matched = ExpectedMatched
        /\ skill_match[1].missing = ExpectedMissing
        /\ IsNearest(skill_match[1].pct,
                     Frac(1000 * Len(ExpectedMatched), Len(RequiredOfJob)))

\* required {Python, SQL}, applicant {python, excel}: matched [python],
\* missing [SQL], 50.0
C5_Witness ==
    /\ RequiredOfJob = Prefix(ReqHardPool, 2)
    /\ ApplicantSkills = <<AppHardPool[1], AppHardPool[5]>>
    /\ skill_match # None
    /\ skill_match[1] = [pct |-> 500, matched |-> <<AppHardPool[1]>>,
                         missing |-> <<ReqHardPool[2]>>]

\* C6: for a named job without required skills, calculate_skill_match returns
\* 100 with an empty missing list and the skill_match component is
\* min(1.5 * number of applicant skills, 35).
C6_NoRequiredSkills ==
    (NamedJob /\ RequiredOfJob = <<>>) =>
        /\ skill_match # None =>
              skill_match[1].pct = 1000 /\ skill_match[1].missing = <<>>
        /\ Scored =>
              TheBreakdown["skill_match"] =
                  IF 3 * Len(ApplicantSkills) >= 70 THEN 3500
                  ELSE 150 * Len(ApplicantSkills)

\* Both functions ran for a named job without required skills and an
\* applicant with enough skills to reach the cap of 35
C6_Witness ==
    /\ NamedJob /\ RequiredOfJob = <<>>
    /\ skill_match # None /\ Scored
    /\ Len(ApplicantSkills) > 24
    /\ TheBreakdown["skill_match"] = 3500

ExpectedBonus == IF 10 * Len(ExpectedMatched) >= 8 * Len(RequiredOfJob) THEN 500 ELSE 0

ExpectedAdditionalScore ==
    IF Len(ExpectedAdditional) >= 20 THEN 1000 ELSE 50 * Len(ExpectedAdditional)

\* C7: for a named job with required skills, skill_match is
\* (|matched| / |required|) * 20 + min(0.5 * |applicant skills not required|, 10)
\* + (5 if |matched| >= 0.8 * |required|), rounded to 2 decimals, and the
\* breakdown reports matched_skills = |matched| and required_skills = |required|.
C7_SkillMatchFormula ==
    (Scored /\ NamedJob /\ RequiredOfJob # <<>>) =>
        /\ IsNearest(TheBreakdown["skill_match"] - ExpectedAdditionalScore - ExpectedBonus,
                     Frac(2000 * Len(ExpectedMatched), Len(RequiredOfJob)))
        /\ TheBreakdown["matched_skills"] = Len(ExpectedMatched)
        /\ TheBreakdown["required_skills"] = Len(RequiredOfJob)

\* 4 of 5 required skills matched (exactly 80%) and one skill besides:
\* 16 + 0.5 + 5
C7_Witness ==
    /\ Scored /\ NamedJob
    /\ Len(RequiredOfJob) = 5 /\ Len(ExpectedMatched) = 4 /\ Len(ExpectedAdditional) = 1
    /\ TheBreakdown["skill_match"] = 2150

Years == IF applicant["years_experience"] = None THEN 0 ELSE applicant["years_experience"][1]

HasField == applicant["job_field"] # None /\ applicant["job_field"][1] # <<>>

ExpectedRelevance ==
    IF Years >= 1 /\ HasField /\ NamedJob THEN 10
    ELSE IF Years >= 2 THEN 5
    ELSE 0

\* C8: the experience component is min(years, 10) plus a relevance bonus of
\* 10 when years >= 1 and a job field and a job are present, otherwise 5 when
\* years >= 2, otherwise 0; it lies in [0, 20] and is 0 when years = 0.
C8_ExperienceFormula ==
    Scored =>
        /\ TheBreakdown["experience"] =
              100 * ((IF Years > 10 THEN 10 ELSE Years) + ExpectedRelevance)
        /\ TheBreakdown["experience"] \in 0..2000
        /\ Years = 0 => TheBreakdown["experience"] = 0

\* More than 10 years with a field and a job: 10 + 10; and the case without a
\* field is reached as well by the same applicant's years
C8_Witness ==
    /\ Scored /\ Years > 10 /\ HasField /\ NamedJob
    /\ TheBreakdown["experience"] = 2000

\* The job name with spaces and underscores removed, lowercased
ClaimedFamilyName ==
    IF NamedJob
    THEN Lower(Kept(applicant["JobOccupation"][1], LAMBDA c : c \notin {" ", "_"}))
    ELSE <<>>

TraitOrZero(t) ==
    IF t \in DOMAIN applicant["scores"] THEN applicant["scores"][t] ELSE 0

RECURSIVE SumPresent(_)
SumPresent(ts) ==
    IF ts = {} THEN 0
    ELSE LET t == CHOOSE x \in ts : TRUE IN applicant["scores"][t] + SumPresent(ts \ {t})

KnownFamilies ==
    analytical_roles \cup technical_roles \cup support_roles \cup writing_roles
        \cup interpersonal_roles

\* C9: for a named job and non-empty trait scores, category_fit is (to 2
\* decimals) Technical 12*(C/5) + 8*(O/5), Support 10*(A/5) + 10*(E/5),
\* Writing 15*(O/5) + 5*(C/5), Interpersonal 12*(E/5) + 8*(A/5), and for a
\* name of no known family 20 * (mean of the present traits / 5); the family
\* is that of the name with spaces and underscores removed and lowercased.
C9_CategoryFitByFamily ==
    (Scored /\ NamedJob /\ DOMAIN applicant["scores"] # {}) =>
        LET fit == TheBreakdown["category_fit"]
            family == ClaimedFamilyName
            O == TraitOrZero("Openness")
            C == TraitOrZero("Conscientiousness")
            E == TraitOrZero("Extraversion")
            A == TraitOrZero("Agreeableness")
        IN /\ family \in technical_roles => IsNearest(fit, Frac(12 * C + 8 * O, 5))
           /\ family \in support_roles => IsNearest(fit, Frac(10 * A + 10 * E, 5))
           /\ family \in writing_roles => IsNearest(fit, Frac(15 * O + 5 * C, 5))
           /\ family \in interpersonal_roles => IsNearest(fit, Frac(12 * E + 8 * A, 5))
           /\ family \notin KnownFamilies =>
                 IsNearest(fit, Frac(20 * SumPresent(DOMAIN applicant["scores"]),
                                     5 * Cardinality(DOMAIN applicant["scores"])))

\* "Software Engineer" with C = 2.33 and O = 3.66: 12 * 0.466 + 8 * 0.732 = 11.448
C9_Witness ==
    /\ Scored
    /\ applicant["JobOccupation"] = Some(SoftwareEngineerTitle)
    /\ TraitOrZero("Conscientiousness") = 233 /\ TraitOrZero("Openness") = 366
    /\ TheBreakdown["category_fit"] = 1145

AnalyticalWithTraits ==
    /\ Scored
    /\ ClaimedFamilyName \in analytical_roles
    /\ {"Conscientiousness", "Openness", "Neuroticism"} \subseteq DOMAIN applicant["scores"]

\* C10, as claimed: for an Analytical job with C, O and N present,
\* category_fit = 8*(C/5) + 8*(O/5) + 4*(1 - N/5)*5, and it lies in [0, 20].
C10_AnalyticalTimesFive ==
    AnalyticalWithTraits =>
        /\ IsNearest(TheBreakdown["category_fit"],
                     Frac(8 * TraitOrZero("Conscientiousness") + 8 * TraitOrZero("Openness")
                            + 5 * 4 * (500 - TraitOrZero("Neuroticism")), 5))
        /\ TheBreakdown["category_fit"] \in 0..2000

\* C10, amended: category_fit = 8*(C/5) + 8*(O/5) + 4*((5 - N)/5), the
\* inverted-Neuroticism term weighted 4 like the other terms and without a
\* further factor 5, and it lies in [0, 20].
C10_AnalyticalInvertedNeuroticism ==
    AnalyticalWithTraits =>
        /\ IsNearest(TheBreakdown["category_fit"],
                     Frac(8 * TraitOrZero("Conscientiousness") + 8 * TraitOrZero("Openness")
                            + 4 * (500 - TraitOrZero("Neuroticism")), 5))
        /\ TheBreakdown["category_fit"] \in 0..2000

\* "Data_Analyst" with C = O = 5.00 and N = 1.00: 8 + 8 + 3.2
C10_Witness ==
    /\ AnalyticalWithTraits
    /\ applicant["JobOccupation"] = Some(DataAnalystClass)
    /\ TraitOrZero("Neuroticism") = 100
    /\ TheBreakdown["category_fit"] = 1920

\* C11, as claimed: with no job (None or "") and some trait present,
\* category_fit = 20 * (mean of the present trait values / 5).
C11_NoJobUsesOtherFormula ==
    (Scored /\ ~NamedJob /\ DOMAIN applicant["scores"] # {}) =>
        IsNearest(TheBreakdown["category_fit"],
                  Frac(20 * SumPresent(DOMAIN applicant["scores"]),
                       5 * Cardinality(DOMAIN applicant["scores"])))

\* The weighted term of a trait, nothing when the trait is absent
TermIfPresent(t, w) ==
    IF t \in DOMAIN applicant["scores"] THEN w * applicant["scores"][t] ELSE 0

\* The inverted term w * (5 - trait), nothing when the trait is absent
InvertedTermIfPresent(t, w) ==
    IF t \in DOMAIN applicant["scores"] THEN w * (500 - applicant["scores"][t]) ELSE 0

\* C12: in each of the five family formulas only the terms of present
\* traits count, an absent trait (an absent Neuroticism in the Analytical
\* formula included) adding 0; the call returns a value whatever traits are
\* present; with no trait at all category_fit = 0.
C12_AbsentTraitAddsNothing ==
    Scored =>
        LET fit == TheBreakdown["category_fit"]
            family == ClaimedFamilyName
        IN /\ DOMAIN applicant["scores"] = {} => fit = 0
           /\ family \in analytical_roles =>
                 IsNearest(fit, Frac(TermIfPresent("Conscientiousness", 8)
                                       + TermIfPresent("Openness", 8)
                                       + InvertedTermIfPresent("Neuroticism", 4), 5))
           /\ family \in technical_roles =>
                 IsNearest(fit, Frac(TermIfPresent("Conscientiousness", 12)
                                       + TermIfPresent("Openness", 8), 5))
           /\ family \in support_roles =>
                 IsNearest(fit, Frac(TermIfPresent("Agreeableness", 10)
                                       + TermIfPresent("Extraversion", 10), 5))
           /\ family \in writing_roles =>
                 IsNearest(fit, Frac(TermIfPresent("Openness", 15)
                                       + TermIfPresent("Conscientiousness", 5), 5))
           /\ family \in interpersonal_roles =>
                 IsNearest(fit, Frac(TermIfPresent("Extraversion", 12)
                                       + TermIfPresent("Agreeableness", 8), 5))

\* "Data_Analyst" with C = O = 5.00 and no Neuroticism: 8 + 8 + 0
C12_Witness ==
    /\ Scored
    /\ applicant["JobOccupation"] = Some(DataAnalystClass)
    /\ applicant["scores"] = [t \in {"Conscientiousness", "Openness"} |-> 500]
    /\ TheBreakdown["category_fit"] = 1600

AllAnswersDefault ==
    /\ DOMAIN answers = 1..NumQuestions
    /\ \A q \in DOMAIN answers : answers[q] = DefaultAnswer

\* C13: personality is (mean of the present trait values / 5) * 25 to 2
\* decimals, and 0 with no trait present; an applicant whose 30 answers are
\* all 3 has every trait at 3.00 and personality 15.0.
C13_Personality ==
    Scored =>
        LET present == DOMAIN applicant["scores"]
        IN /\ present = {} => TheBreakdown["personality"] = 0
           /\ present # {} =>
                 IsNearest(TheBreakdown["personality"],
                           Frac(25 * SumPresent(present), 5 * Cardinality(present)))
           /\ AllAnswersDefault =>
                 /\ applicant["scores"] = [t \in Traits |-> 300]
                 /\ TheBreakdown["personality"] = 1500

C13_Witness ==
    /\ Scored
    /\ AllAnswersDefault
    /\ TheBreakdown["personality"] = 1500

\* C14: with no job (None or "") the skill_match component is 0 whatever
\* the skills, and calculate_skill_match returns 0 with empty matched and
\* missing lists.
C14_NoJobNoSkillMatch ==
    ~NamedJob =>
        /\ Scored => TheBreakdown["skill_match"] = 0
        /\ skill_match # None =>
              /\ skill_match[1].pct = 0
              /\ skill_match[1].matched = <<>>
              /\ skill_match[1].missing = <<>>

\* No job, seven skills, both functions called
C14_Witness ==
    /\ ~NamedJob
    /\ Len(ApplicantSkills) = Len(AppHardPool) + Len(AppSoftPool)
    /\ Scored
    /\ skill_match # None

\* The keys of the record handed to calculate_overall_fit_score
ApplicantKeys == DOMAIN Applicant(<<>>, None, <<>>, <<>>, None, None)

\* C19, as claimed: after calculate_overall_fit_score the record passed to it
\* has the keys it had before the call and no other.
C19_NoKeyAdded ==
    overall # None => DOMAIN applicant = ApplicantKeys

\* C20: a second call of calculate_overall_fit_score, on the record the
\* first call left, returns the total and stores the breakdown of the first.
C20_SecondCallSame ==
    previous # None =>
        /\ overall = Some(previous[1].total)
        /\ applicant["score_breakdown"] = previous[1].score_breakdown

\* A second call on an applicant with a job, traits, skills and years
C20_Witness ==
    /\ previous # None
    /\ NamedJob
    /\ previous[1].total > 5000
    /\ previous[1].score_breakdown["personality"] > 0

-----------------------------------------------------------------------------
(* Properties of the role classifier *)

Classified == "skill_match_percentage" \in DOMAIN applicant

\* The rules in their order: the traits a rule mentions, whether it holds
\* for trait values v, and its category
Rules ==
    <<[traits |-> {"Conscientiousness", "Openness", "Neuroticism"},
       category |-> Analytical],
      [traits |-> {"Conscientiousness"}, category |-> Technical],
      [traits |-> {"Agreeableness", "Extraversion"}, category |-> Support],
      [traits |-> {"Openness"}, category |-> Writing],
      [traits |-> {"Extraversion"}, category |-> Interpersonal]>>

RuleHolds(i, v) ==
    CASE i = 1 -> v["Conscientiousness"] >= 400 /\ v["Openness"] >= 450
                     /\ v["Neuroticism"] <= 250
      [] i = 2 -> v["Conscientiousness"] >= 300
      [] i = 3 -> v["Agreeableness"] >= 400 /\ v["Extraversion"] >= 350
      [] i = 4 -> v["Openness"] >= 400
      [] i = 5 -> v["Extraversion"] >= 400

\* C17: with all five traits present the classifier assigns at most one
\* category: that of the first rule, in the order Analytical, Technical,
\* Support, Writing, Interpersonal, that holds, and none if no rule holds.
C17_FirstRuleWins ==
    (Classified /\ DOMAIN applicant["scores"] = Traits) =>
        LET holding == {i \in DOMAIN Rules : RuleHolds(i, applicant["scores"])}
        IN /\ Len(applicant["categories"]) <= 1
           /\ holding = {} => applicant["categories"] = <<>>
           /\ holding # {} =>
                 applicant["categories"] =
                     <<Rules[CHOOSE i \in holding : \A j \in holding : i <= j].category>>

\* C = 4.2, O = 4.6, N = 3.0: the Analytical rule fails on N, Technical is
\* assigned although Writing holds as well
C17_Witness ==
    /\ Classified
    /\ DOMAIN applicant["scores"] = Traits
    /\ applicant["scores"]["Conscientiousness"] = 420
    /\ applicant["scores"]["Openness"] = 460
    /\ applicant["scores"]["Neuroticism"] = 300
    /\ applicant["categories"] = <<Technical>>

\* C18, as claimed: a rule that mentions a trait missing from the scores
\* does not fire, and empty scores get no category.
C18_MissingTraitFailsRule ==
    Classified =>
        /\ \A i \in DOMAIN Rules :
              ~(Rules[i].traits \subseteq DOMAIN applicant["scores"]) =>
                  ~InList(Rules[i].category, applicant["categories"])
        /\ DOMAIN applicant["scores"] = {} => applicant["categories"] = <<>>

-----------------------------------------------------------------------------
(* Properties of the rankings *)

Ranked == ranked # None

TheRanking == ranked[1]

\* The least integer that is at least n / d
CeilDiv(n, d) == (n + d - 1) \div d

\* C15, as claimed: a top-K selection over N >= 1 entries at a threshold of
\* p percent returns max(1, ceil(N * p / 100)) entries, in
\* determine_top_percentage, in rank_top10.py and in the leaderboard of
\* app.py; so 3 of 25 at 10%.
C15_TopCountIsCeiling ==
    (Ranked /\ TheRanking.top # None /\ Len(entries) >= 1) =>
        LET k == CeilDiv(Len(entries) * TheRanking.threshold[1], 100)
        IN Len(TheRanking.top[1]) = IF k >= 1 THEN k ELSE 1

\* The place of the entry of this name in the input
InputPlace(name) == CHOOSE i \in 1..Len(entries) : entries[i].name = name

\* x is ordered before y by the key of the ranking
Precedes(by, x, y) ==
    CASE by \in {"Highest Score", "determine_top_percentage"} ->
            x.overall_fit_score[1] > y.overall_fit_score[1]
      [] by = "Skill Match" -> x.skill_match_percentage > y.skill_match_percentage
      [] by = "Name (A-Z)" -> StrLess(x.name, y.name)
      [] by = "Personality Score" ->
            LET mean(e) == IF DOMAIN e.scores = {} THEN <<0, 1>>
                           ELSE <<SumValues(e.scores, DOMAIN e.scores),
                                  Cardinality(DOMAIN e.scores)>>
            IN mean(x)[1] * mean(y)[2] > mean(y)[1] * mean(x)[2]

\* C16: the results view under each of its four sort keys, and
\* determine_top_percentage by total_score, give a permutation of the input
\* in the order of the key (descending for the numeric keys, ascending for
\* the name), entries of equal key in their input order.
C16_StableOrderedPermutation ==
    (Ranked /\ TheRanking.by \in SortChoices \cup {"determine_top_percentage"}) =>
        LET out == TheRanking.sorted
            n == Len(entries)
        IN /\ Len(out) = n
           /\ \A i \in 1..n : \E r \in 1..n :
                 /\ out[r].name = entries[i].name
                 /\ out[r].scores = entries[i].scores
                 /\ out[r].skill_match_percentage = entries[i].skill_match_percentage
                 /\ entries[i].overall_fit_score # None =>
                       out[r].overall_fit_score = entries[i].overall_fit_score
           /\ \A r, s \in 1..n :
                 r < s =>
                     /\ ~Precedes(TheRanking.by, out[s], out[r])
                     /\ ~Precedes(TheRanking.by, out[r], out[s]) =>
                           InputPlace(out[r].name) < InputPlace(out[s].name)

\* Three applicants, the second and third with the same total above the
\* first: sorted by "Highest Score" they come second, third, first
C16_Witness ==
    /\ Ranked
    /\ TheRanking.by = "Highest Score"
    /\ Len(entries) = 3
    /\ ScoreKey(entries[1]) < ScoreKey(entries[2])
    /\ ScoreKey(entries[2]) = ScoreKey(entries[3])
    /\ [r \in 1..3 |-> TheRanking.sorted[r].name]
           = <<entries[2].name, entries[3].name, entries[1].name>>

-----------------------------------------------------------------------------
(* Further properties of skill matching, experience and the shortlist *)

\* C24, as claimed: every skill reported in matched is, case-insensitively,
\* one of the job's required skills, also for a job that requires none.
C24_MatchedAreRequired ==
    skill_match # None =>
        \A i \in 1..Len(skill_match[1].matched) :
            Lower(skill_match[1].matched[i]) \in LowerSet(RequiredOfJob)

\* C25, as claimed: whatever the applicant's lists, repeated skills
\* included, no more skills are matched than are required, the match
\* percentage is at most 100 and the skill_match component at most 35.
C25_MatchedWithinRequired ==
    /\ skill_match # None =>
          /\ skill_match[1].pct <= 1000
          /\ RequiredOfJob # <<>> => Len(skill_match[1].matched) <= Len(RequiredOfJob)
    /\ Scored =>
          /\ TheBreakdown["skill_match"] <= 3500
          /\ "matched_skills" \in DOMAIN TheBreakdown =>
                TheBreakdown["matched_skills"] <= TheBreakdown["required_skills"]

\* The applicant with one more hard skill
WithHardSkill(s) == [applicant EXCEPT !["hard_skills"] = Append(@, s)]

\* The skills an applicant can add
SkillVocabulary ==
    UNION {{pool[i] : i \in 1..Len(pool)} :
              pool \in {ReqHardPool, ReqSoftPool, AppHardPool, AppSoftPool, ExtraSkills(1)}}

SkillMatchWith(s) == Round2(SkillComponent(onto, WithHardSkill(s)), fp.component)

MissingRequired(s) ==
    Lower(s) \in LowerSet(RequiredOfJob) /\ Lower(s) \notin LowerSet(ApplicantSkills)

MonotoneCase ==
    /\ Scored
    /\ NamedJob
    /\ RequiredOfJob # <<>>
    /\ NoDuplicates(LowerAll(ApplicantSkills))

\* C29: for a job with required skills and an applicant list free of
\* duplicates, one more skill never lowers skill_match, and a required
\* skill that was missing raises it.
C29_SkillMatchMonotone ==
    MonotoneCase =>
        \A s \in SkillVocabulary :
            ~InList(s, ApplicantSkills) =>
                /\ SkillMatchWith(s) >= TheBreakdown["skill_match"]
                /\ MissingRequired(s) => SkillMatchWith(s) > TheBreakdown["skill_match"]

\* Three of five required skills matched: a fourth lifts the share to 80%
\* and earns the bonus, 9 points more
C29_Witness ==
    /\ MonotoneCase
    /\ Len(RequiredOfJob) = 5
    /\ Len(ExpectedMatched) = 3
    /\ \E s \in SkillVocabulary :
          MissingRequired(s) /\ SkillMatchWith(s) >= TheBreakdown["skill_match"] + 900

\* C30: with job field and job fixed, the experience component does not
\* fall when years_experience grows, and from 10 years on it stays the same.
C30_ExperienceMonotone ==
    Scored =>
        \A y \in 0..(MaxYears + 1) :
            LET more == ExperienceScore(y, applicant["job_field"], applicant["JobOccupation"])
            IN /\ y >= Years => more >= TheBreakdown["experience"]
               /\ (y >= 10 /\ Years >= 10) => more = TheBreakdown["experience"]

\* More than 10 years with a field and no job: 10 + 5, as at 10 years
C30_Witness ==
    /\ Scored /\ Years > 10 /\ HasField /\ ~NamedJob
    /\ TheBreakdown["experience"] = 1500

\* C26: the list determine_top_percentage returns, and the one
\* rank_top10.py prints, is the head of the collection sorted by descending
\* total_score: no entry left out has a higher total than one taken, and the
\* list has between 1 and N entries for N >= 1 and none for N = 0.
C26_ShortlistIsHead ==
    (Ranked /\ TheRanking.by \in {"determine_top_percentage", "rank_top10"}) =>
        LET out == TheRanking.sorted
            top == TheRanking.top[1]
            n == Len(entries)
            k == Len(top)
        IN /\ Len(out) = n
           /\ {out[i].name : i \in 1..n} = {entries[i].name : i \in 1..n}
           /\ \A i \in 1..(n - 1) : out[i].overall_fit_score[1] >= out[i + 1].overall_fit_score[1]
           /\ k <= n
           /\ top = [i \in 1..k |-> out[i]]
           /\ \A i \in 1..k : \A j \in (k + 1)..n :
                 top[i].overall_fit_score[1] >= out[j].overall_fit_score[1]
           /\ n >= 1 => k >= 1
           /\ n = 0 => k = 0

\* 25 results at 10%: the two highest are returned, 23 are left out
C26_Witness ==
    /\ Ranked
    /\ TheRanking.by = "determine_top_percentage"
    /\ TheRanking.threshold = Some(10)
    /\ Len(entries) = 25
    /\ Len(TheRanking.top[1]) = 2
    /\ TheRanking.top[1][1].overall_fit_score[1] > TheRanking.top[1][2].overall_fit_score[1]

-----------------------------------------------------------------------------
(* The published job categories against the role families *)

\* The role set that stands for a key of JOB_CATEGORIES
RoleSetOf(key) ==
    CASE key = "HighFitForAnalyticalRoles" -> analytical_roles
      [] key = "HighFitForTechnicalRoles" -> technical_roles
      [] key = "HighFitForSupportRoles" -> support_roles
      [] key = "HighFitForWritingRoles" -> writing_roles
      [] key = "HighFitForInterpersonalRoles" -> interpersonal_roles

\* The category_fit formula of a key of JOB_CATEGORIES, on the applicant's scores
FormulaOf(key) ==
    LET O == TraitOrZero("Openness")
        C == TraitOrZero("Conscientiousness")
        E == TraitOrZero("Extraversion")
        A == TraitOrZero("Agreeableness")
        N == TraitOrZero("Neuroticism")
    IN CASE key = "HighFitForAnalyticalRoles" -> Frac(8 * C + 8 * O + 4 * (500 - N), 5)
         [] key = "HighFitForTechnicalRoles" -> Frac(12 * C + 8 * O, 5)
         [] key = "HighFitForSupportRoles" -> Frac(10 * A + 10 * E, 5)
         [] key = "HighFitForWritingRoles" -> Frac(15 * O + 5 * C, 5)
         [] key = "HighFitForInterpersonalRoles" -> Frac(12 * E + 8 * A, 5)

\* C28: a job title listed in JOB_CATEGORIES under a role family is, with
\* spaces and underscores removed and lowercased, a member of that family's
\* role set and of no other family's, and once the applicant is scored its
\* category_fit is that family's formula (to 2 decimals).
C28_ListedTitleScoredByOwnFamily ==
    \A key \in DOMAIN JOB_CATEGORIES :
        (NamedJob /\ applicant["JobOccupation"][1] \in JOB_CATEGORIES[key]) =>
            LET family == ClaimedFamilyName
            IN /\ family \in RoleSetOf(key)
               /\ \A other \in DOMAIN JOB_CATEGORIES \ {key} : family \notin RoleSetOf(other)
               /\ Scored => IsNearest(TheBreakdown["category_fit"], FormulaOf(key))

\* The listed titles that do resolve to their own family are scored by its formula
C28_ResolvedTitles ==
    \A key \in DOMAIN JOB_CATEGORIES :
        (/\ NamedJob
         /\ applicant["JobOccupation"][1] \in JOB_CATEGORIES[key]
         /\ ClaimedFamilyName \in RoleSetOf(key)
         /\ Scored) =>
            IsNearest(TheBreakdown["category_fit"], FormulaOf(key))

-----------------------------------------------------------------------------
(* Properties of the intake *)

\* C23: a call of add_applicant_to_graph with a list of other than 30
\* answers returns False and leaves the graph exactly as it was.
C23_RejectedLeavesGraph ==
    [][(success = None /\ success' # None
          /\ Len(Get(applicant_data, "answers", <<>>)) # 30)
        => (success' = Some(FALSE) /\ g' = g)]_vars

\* A rejected call returns False, adds at most the two type triples of the
\* person, and nothing is written to jobs_clean.ttl
C23_RejectedAddsPersonOnly ==
    (success # None /\ Len(Get(applicant_data, "answers", <<>>)) # 30) =>
        /\ success = Some(FALSE)
        /\ jobs_clean = None
        /\ \A t \in g : t[2] \notin {"hasAnswer", "hasExperience", "hasHardSkill",
                                      "hasSoftSkill", "hasApplicant"}

-----------------------------------------------------------------------------
(* Properties of run_complete_workflow *)

\* What a fresh calculation gives for a stored person: the trait scores and
\* the four scores by property
FreshTraits(person) == calculate_big_five(person["hasAnswer"], fp.component)

FreshScores(person) ==
    LET years == IF person["hasYearsOfExperience"] # None
                 THEN person["hasYearsOfExperience"][1] ELSE 0
        fresh == Applicant(FreshTraits(person), person["hasJobOccupation"],
                           person["hasHardSkill"], person["hasSoftSkill"], Some(years),
                           person["inJobField"])
        breakdown == Breakdown(onto, fresh, fp)
    IN [hasWeightedScore |-> OverallFitScore(onto, fresh, fp),
        hasCategoryFitScore |-> breakdown["category_fit"],
        hasSkillMatchScore |-> breakdown["skill_match"],
        hasExperienceScore |-> breakdown["experience"]]

StoredTrait(person, t) ==
    Get(person, "has" \o t \o "Score", 0)

\* C22: after a run of run_complete_workflow every stored person that has
\* answers holds the trait scores and the weighted, category-fit, skill-match
\* and experience scores computed from its current answers, skills,
\* experience and job, whatever was stored before (a score of 0 may be
\* stored as no value).
C22_AllRecalculated ==
    runs >= 1 =>
        \A i \in DOMAIN persons :
            DOMAIN persons[i]["hasAnswer"] # {} =>
                /\ \A t \in DOMAIN FreshTraits(persons[i]) :
                      StoredTrait(persons[i], t) = FreshTraits(persons[i])[t]
                /\ \A prop \in ScoreProperties :
                      Get(persons[i], prop, 0) = FreshScores(persons[i])[prop]

Positive(person) ==
    {prop \in DOMAIN person \ {"hasAnswer", "hasJobOccupation", "hasHardSkill",
                               "hasSoftSkill", "hasYearsOfExperience", "inJobField"} :
        person[prop] > 0}

-----------------------------------------------------------------------------
(* Properties of concurrent invocations *)

\* The argument as the invocation received it
Received(c) == [k \in DOMAIN c.applicant \ {"score_breakdown"} |-> c.applicant[k]]

\* C21: under every interleaving of two or more invocations of
\* calculate_overall_fit_score and calculate_big_five on applicants of their
\* own, each invocation that has returned gave the total and the breakdown,
\* or the trait scores, that the function gives when it runs alone.
C21_InterleavedAsAlone ==
    \A i \in DOMAIN calls :
        calls[i].returned # None =>
            IF calls[i].fn = "calculate_big_five"
            THEN calls[i].returned[1] = calculate_big_five(calls[i].answers, fp.component)
            ELSE /\ calls[i].returned[1] = OverallFitScore(onto, Received(calls[i]), fp)
                 /\ calls[i].applicant["score_breakdown"] = Breakdown(onto, Received(calls[i]), fp)

\* An invocation of each function has returned after statements of another
\* invocation ran between its own
C21_Witness ==
    \E i, j \in DOMAIN calls :
        /\ calls[i].fn = "calculate_overall_fit_score"
        /\ calls[j].fn = "calculate_big_five"
        /\ calls[i].returned # None /\ calls[i].interleaved
        /\ calls[j].returned # None /\ calls[j].interleaved
        /\ calls[i].returned[1] = 6420

====
